---- MODULE Spec2Model ----
(***************************************************************************)
(* Steam Games Analytics Dashboard: the ETL pipeline (run_pipeline.py),    *)
(* its transform chain (src/transform.py) and its loader (src/load.py).    *)
(*                                                                         *)
(* Data representation                                                     *)
(*   - a text value is a sequence of one-character strings, so that strip, *)
(*     split and parsing are computed character by character;              *)
(*   - a cell that may be missing (pandas NaN / NaT) is a sequence of      *)
(*     length 0 (missing) or 1 (present);                                  *)
(*   - a row is a function from column names to cells; a table (DataFrame) *)
(*     is [columns, rows], the columns being kept for a zero-row table;    *)
(*   - a price is a number of cents.                                       *)
(***************************************************************************)
EXTENDS Integers, Sequences, FiniteSets, TLC

VARIABLES
    pc,             \* position of the process in main / run_pipeline
    args,           \* the parsed command line: skip_extract, skip_transform, skip_load
    raw_file,       \* the raw CSV file on disk (RAW_STEAM_FILE)
    df_current,     \* run_pipeline's df_current (None or a table)
    df_raw,         \* run_transform's argument
    df_clean,       \* result of clean_basic_data
    df_dates,       \* result of transform_dates
    df_metrics,     \* result of create_calculated_metrics
    df_categorical, \* result of process_categorical_data
    df_final,       \* result of apply_business_rules
    success_count,  \* run_load's success_count
    load_success,   \* run_pipeline's success (None until run_load returns)
    raised,         \* the stage whose exception reached run_pipeline's handler
    exception,      \* the type of that exception ("none" without one)
    events,         \* the stages, passes and writes executed in this run, in order
    warnings,       \* warnings logged by run_pipeline in this run
    result,         \* what run_pipeline returned (None while it runs)
    exit_code,      \* the process's exit code (None while it runs)
    csv_file,       \* PROCESSED_STEAM_CSV on disk
    excel_file,     \* PROCESSED_STEAM_EXCEL on disk
    database,       \* DATABASE_FILE: table name -> contents
    db_saves,       \* history: the last two save_to_database calls (table, return value)
    db_indexes,     \* the indexes of the games table (the columns they are on)
    index_faults,   \* environment: the columns whose CREATE INDEX the database refuses
    saved,          \* history: the return values of this run's saves, in call order
    current_year,   \* datetime.now().year for this process
    runs,           \* number of pipeline processes started so far
    previous,       \* history: what the previous run_transform on this table returned
    dash_pc,        \* dashboard: position in main
    dash_df,        \* dashboard: the table load_data returned (None before)
    filters,        \* dashboard: the sidebar's filters (None before the first choice)
    filtered_df,    \* dashboard: what apply_filters returned (None before)
    load_data_cache, \* dashboard server: st.cache_data's entry for load_data (None: no entry)
    steam_api_key,  \* extractor: whether STEAM_API_KEY is configured
    app_ids,        \* extract_steam_api_data's argument
    api_index,      \* the number of app ids the lookup loop has gone through
    api_data,       \* extract_steam_api_data's api_data: app id -> response data
    api_requests,   \* the number of requests.get calls made
    api_warnings,   \* the app ids a lookup warning was logged for
    api_queried,    \* history: the app ids requests.get was called for, in call order
    api_status,     \* history: the status of the last response (missing: no response)
    api_pc          \* position in extract_steam_api_data

vars == <<pc, args, raw_file, df_current, df_raw, df_clean, df_dates, df_metrics,
          df_categorical, df_final, success_count, load_success, raised, exception, events,
          warnings, result, exit_code, csv_file, excel_file, database,
          db_saves, db_indexes, index_faults, saved, current_year, runs, previous, dash_pc, dash_df, filters,
          filtered_df, load_data_cache, steam_api_key, app_ids, api_index, api_data, api_requests,
          api_warnings, api_queried, api_status, api_pc>>

transform_locals == <<df_raw, df_clean, df_dates, df_metrics, df_categorical, df_final>>
artifacts == <<csv_file, excel_file, database, db_saves, db_indexes>>
dashboard == <<dash_pc, dash_df, filters, filtered_df, load_data_cache>>
api == <<steam_api_key, app_ids, api_index, api_data, api_requests,
          api_warnings, api_queried, api_status, api_pc>>
beside == <<previous, dashboard, api, index_faults>>
pipeline == <<pc, args, raw_file, df_current, transform_locals, success_count, load_success,
              raised, exception, events, warnings, result, exit_code, artifacts, saved,
              current_year, runs, index_faults>>

---------------------------------------------------------------------------
(* Bounds of the model *)

MaxRows == 2        \* rows of a raw table
MaxRuns == 2        \* pipeline processes run one after the other
MaxAppId == 2       \* distinct appids in a raw table

---------------------------------------------------------------------------
(* Missing values and text *)

NA == <<>>
Some(v) == <<v>>
IsNA(cell) == cell = NA
Val(cell) == cell[1]
None == <<>>

Min(S) == CHOOSE m \in S : \A n \in S : m <= n
Max(S) == CHOOSE m \in S : \A n \in S : m >= n

str_nan == <<"n", "a", "n">>
str_Unknown == <<"U", "n", "k", "n", "o", "w", "n">>
str_windows == <<"w", "i", "n", "d", "o", "w", "s">>
str_mac == <<"m", "a", "c">>
str_linux == <<"l", "i", "n", "u", "x">>
str_Multi_player == <<"M", "u", "l", "t", "i", "-", "p", "l", "a", "y", "e", "r">>
str_Single_player == <<"S", "i", "n", "g", "l", "e", "-", "p", "l", "a", "y", "e", "r">>

\* str.strip(): leading and trailing whitespace removed
Strip(s) ==
    LET inked == {i \in 1..Len(s) : s[i] # " "}
    IN  IF inked = {} THEN <<>> ELSE SubSeq(s, Min(inked), Max(inked))

\* astype(str): a missing cell prints as 'nan'
AsStr(cell) == IF IsNA(cell) THEN str_nan ELSE Val(cell)

DigitValue(c) ==
    CASE c = "0" -> 0 [] c = "1" -> 1 [] c = "2" -> 2 [] c = "3" -> 3 [] c = "4" -> 4
      [] c = "5" -> 5 [] c = "6" -> 6 [] c = "7" -> 7 [] c = "8" -> 8 [] c = "9" -> 9

IsDigit(c) == c \in {"0", "1", "2", "3", "4", "5", "6", "7", "8", "9"}
IsDigits(s) == Len(s) > 0 /\ \A i \in 1..Len(s) : IsDigit(s[i])

RECURSIVE DigitsValue(_)
DigitsValue(s) ==
    IF s = <<>> THEN 0
    ELSE 10 * DigitsValue(SubSeq(s, 1, Len(s) - 1)) + DigitValue(s[Len(s)])

\* str.split(sep)
RECURSIVE Split(_, _)
Split(s, sep) ==
    LET at == {i \in 1..Len(s) : s[i] = sep}
    IN  IF at = {} THEN <<s>>
        ELSE <<SubSeq(s, 1, Min(at) - 1)>> \o Split(SubSeq(s, Min(at) + 1, Len(s)), sep)

\* str.contains(pat) for a literal pattern
Contains(s, pat) ==
    \E i \in 1..(Len(s) - Len(pat) + 1) : SubSeq(s, i, i + Len(pat) - 1) = pat

---------------------------------------------------------------------------
(* Tables *)

Table(columns, rows) == [columns |-> columns, rows |-> rows]
HasCol(df, c) == c \in df.columns
\* every column a pass reads must exist, else pandas raises KeyError
HasCols(df, cs) == cs \subseteq df.columns
Length(df) == Len(df.rows)

\* df[col] = value computed per row (adds or overwrites the columns of `cells`)
WithCells(r, cells) == cells @@ r


RawColumns ==
    {"appid", "name", "release_date", "price", "positive_ratings", "negative_ratings",
     "owners", "platforms", "categories", "genres", "achievements", "average_playtime",
     "developer"}

---------------------------------------------------------------------------
(* src/config.py *)

MIN_YEAR == 2010

---------------------------------------------------------------------------
(* A stage call and the objects it touches.  `arg` is the state of the table
   the caller passed, `local` the state of the table the stage's own name is
   bound to, `same` whether the two names are bound to one object. *)

Call(df) == [arg |-> df, local |-> df, same |-> TRUE]

\* A fault: the stage works on the table it was given.
copy_none(c) == c

\* df.copy(): the local name is bound to a new object with the same contents
copy(c) == [c EXCEPT !.same = FALSE]

\* an operation that returns a new table (drop_duplicates, boolean indexing),
\* bound to the local name
Rebound(c, t) == [arg |-> c.arg, local |-> t, same |-> FALSE]

\* column assignments df[col] = ..., made in place on the local name's object
Assigned(c, t) == [arg |-> IF c.same THEN t ELSE c.arg, local |-> t, same |-> c.same]

---------------------------------------------------------------------------
(* SteamDataTransformer.clean_basic_data *)

\* drop_duplicates(subset=['appid'], keep='first')
RECURSIVE DropDuplicatesFrom(_, _)
DropDuplicatesFrom(rows, seen) ==
    IF rows = <<>> THEN <<>>
    ELSE IF Head(rows).appid \in seen
         THEN DropDuplicatesFrom(Tail(rows), seen)
         ELSE <<Head(rows)>> \o DropDuplicatesFrom(Tail(rows), seen \cup {Head(rows).appid})

\* the faulty variant keep='last'
RECURSIVE DropDuplicatesKeepLast(_)
DropDuplicatesKeepLast(rows) ==
    IF rows = <<>> THEN <<>>
    ELSE IF \E j \in 2..Len(rows) : rows[j].appid = Head(rows).appid
         THEN DropDuplicatesKeepLast(Tail(rows))
         ELSE <<Head(rows)>> \o DropDuplicatesKeepLast(Tail(rows))

drop_duplicates(rows) == DropDuplicatesFrom(rows, {})

fill_values ==
    [achievements |-> 0, positive_ratings |-> 0, negative_ratings |-> 0,
     average_playtime |-> 0, price |-> 0, developer |-> str_Unknown,
     platforms |-> str_windows, categories |-> str_Unknown, genres |-> str_Unknown]

handle_missing_values(r) ==
    [c \in DOMAIN r |->
        IF c \in DOMAIN fill_values
        THEN (IF IsNA(r[c]) THEN Some(fill_values[c]) ELSE r[c])
        ELSE r[c]]

string_columns == {"name", "developer", "categories", "genres"}

\* astype(str).str.strip(), then replace('nan', np.nan)
CleanString(cell) ==
    LET s == Strip(AsStr(cell)) IN IF s = str_nan THEN NA ELSE Some(s)

StripStrings(r) ==
    [c \in DOMAIN r |-> IF c \in string_columns THEN CleanString(r[c]) ELSE r[c]]

CleanRow(r) == StripStrings(handle_missing_values(r))

clean_basic_data_raises(df) == ~HasCol(df, "appid")

clean_basic_data(df) ==
    LET kept == drop_duplicates(df.rows)
    IN  Table(df.columns, [i \in 1..Len(kept) |-> CleanRow(kept[i])])

\* the call: copy, drop_duplicates into a new table, then the fills and the
\* string cleaning assigned column by column
clean_basic_data_call(df) ==
    Assigned(Rebound(copy(Call(df)), Table(df.columns, drop_duplicates(df.rows))),
             clean_basic_data(df))

---------------------------------------------------------------------------
(* SteamDataTransformer.transform_dates *)

IsLeap(y) == (y % 4 = 0 /\ y % 100 # 0) \/ y % 400 = 0
DaysInMonth(y, m) ==
    IF m = 2 THEN (IF IsLeap(y) THEN 29 ELSE 28)
    ELSE IF m \in {4, 6, 9, 11} THEN 30 ELSE 31

\* pd.to_datetime(errors='coerce') on the dataset's YYYY-MM-DD dates: a text that
\* is no calendar date, and a missing cell, become NaT
to_datetime(cell) ==
    IF IsNA(cell) THEN NA
    ELSE LET s == Val(cell)
             wellFormed == /\ Len(s) = 10
                           /\ s[5] = "-" /\ s[8] = "-"
                           /\ IsDigits(SubSeq(s, 1, 4))
                           /\ IsDigits(SubSeq(s, 6, 7))
                           /\ IsDigits(SubSeq(s, 9, 10))
             y == DigitsValue(SubSeq(s, 1, 4))
             m == DigitsValue(SubSeq(s, 6, 7))
             d == DigitsValue(SubSeq(s, 9, 10))
         IN  IF wellFormed /\ y >= 1 /\ m \in 1..12 /\ d \in 1..DaysInMonth(y, m)
             THEN Some([year |-> y, month |-> m, day |-> d])
             ELSE NA

DateCells(r) ==
    LET dt == to_datetime(r.release_date)
    IN  [release_date |-> dt,
         release_year |-> IF IsNA(dt) THEN NA ELSE Some(Val(dt).year),
         release_month |-> IF IsNA(dt) THEN NA ELSE Some(Val(dt).month),
         release_quarter |-> IF IsNA(dt) THEN NA ELSE Some(((Val(dt).month - 1) \div 3) + 1)]

WithDates(r) == WithCells(r, DateCells(r))

\* the faulty variant in which rows without a year pass the filter
YearAtLeastOrMissing(r, min_year) ==
    IsNA(r.release_year) \/ Val(r.release_year) >= min_year

\* df['release_year'] >= min_year: a comparison with NaN is False
YearAtLeast(r, min_year) ==
    ~IsNA(r.release_year) /\ Val(r.release_year) >= min_year

transform_dates_raises(df) == ~HasCol(df, "release_date")

transform_dates(df, min_year) ==
    LET KeepRow(r) == YearAtLeast(r, min_year)
    IN  Table(df.columns \cup {"release_year", "release_month", "release_quarter"},
              SelectSeq([i \in 1..Len(df.rows) |-> WithDates(df.rows[i])], KeepRow))

\* the call: copy, the four date columns assigned, then the year filter into a
\* new table
transform_dates_call(df, min_year) ==
    Rebound(Assigned(copy(Call(df)),
                     Table(df.columns \cup {"release_year", "release_month", "release_quarter"},
                           [i \in 1..Len(df.rows) |-> WithDates(df.rows[i])])),
            transform_dates(df, min_year))

---------------------------------------------------------------------------
(* SteamDataTransformer._parse_owners_range *)

RemoveChar(s, ch) == SelectSeq(s, LAMBDA c : c # ch)

\* what Python's int(text) accepts: surrounding blanks, an optional + sign,
\* digits with single underscores between them
IntLiteralBody(s) ==
    LET t == Strip(s) IN IF t # <<>> /\ t[1] = "+" THEN Tail(t) ELSE t

IsIntLiteral(s) ==
    LET u == IntLiteralBody(s)
    IN  /\ u # <<>>
        /\ IsDigit(u[1]) /\ IsDigit(u[Len(u)])
        /\ \A i \in 1..Len(u) : IsDigit(u[i]) \/ u[i] = "_"
        /\ \A i \in 1..(Len(u) - 1) : ~(u[i] = "_" /\ u[i + 1] = "_")

IntValue(s) == DigitsValue(RemoveChar(IntLiteralBody(s), "_"))

\* the exception the body of the try block ends with ("none" when it returns):
\* unpacking a split that has not two parts, or int() of a text that is no
\* integer literal
parse_owners_error(cell) ==
    IF IsNA(cell) \/ cell = Some(str_Unknown) THEN "none"
    ELSE LET clean_str == Strip(Val(cell))
             parts == Split(clean_str, "-")
         IN  IF \E i \in 1..Len(clean_str) : clean_str[i] = "-"
             THEN IF /\ Len(parts) = 2
                     /\ IsIntLiteral(RemoveChar(parts[1], ","))
                     /\ IsIntLiteral(RemoveChar(parts[2], ","))
                  THEN "none" ELSE "ValueError"
             ELSE IF IsIntLiteral(RemoveChar(clean_str, ",")) THEN "none" ELSE "ValueError"

\* a fault: the handler catches AttributeError only
owners_except_AttributeErrorOnly == {"AttributeError"}

\* except (ValueError, AttributeError)
owners_except == {"ValueError", "AttributeError"}

parse_owners_range_raises(cell) ==
    parse_owners_error(cell) \notin ({"none"} \cup owners_except)

\* a fault: the lower endpoint instead of the midpoint
parse_owners_range_lowerEnd(cell) ==
    IF IsNA(cell) \/ cell = Some(str_Unknown) \/ parse_owners_error(cell) # "none" THEN 0
    ELSE IntValue(RemoveChar(Split(Strip(Val(cell)), "-")[1], ","))

parse_owners_range(cell) ==
    IF IsNA(cell) \/ cell = Some(str_Unknown) \/ parse_owners_error(cell) # "none" THEN 0
    ELSE LET clean_str == Strip(Val(cell))
             parts == Split(clean_str, "-")
         IN  IF Len(parts) = 2
             THEN (IntValue(RemoveChar(parts[1], ",")) + IntValue(RemoveChar(parts[2], ",")))
                      \div 2
             ELSE IntValue(RemoveChar(clean_str, ","))

---------------------------------------------------------------------------
(* SteamDataTransformer.create_calculated_metrics *)

RECURSIVE Gcd(_, _)
Gcd(a, b) == IF b = 0 THEN a ELSE Gcd(b, a % b)

\* an exact fraction num/den, den > 0, in lowest terms (floating-point rounding
\* is not modelled)
Ratio(n, d) == LET g == Gcd(n, d) IN [num |-> n \div g, den |-> d \div g]

RECURSIVE FloorLog2(_)
FloorLog2(n) == IF n <= 1 THEN 0 ELSE 1 + FloorLog2(n \div 2)

RECURSIVE Pow2(_)
Pow2(k) == IF k = 0 THEN 1 ELSE 2 * Pow2(k - 1)

\* np.log1p(x), in units of ln(2)/1024: only quotients of two logarithms are
\* used, so the base cancels. Exact when 1 + x is a power of two, linear between.
log1p(x) ==
    LET k == FloorLog2(1 + x)
    IN  1024 * k + (1024 * ((1 + x) - Pow2(k))) \div Pow2(k)

\* a fault: left-closed bins, as with right=False
Cut_leftClosed(v, edges, labels) ==
    IF v < 0 THEN NA
    ELSE LET fits == {i \in 1..Len(edges) : v < edges[i]}
         IN  IF fits = {} THEN Some(labels[Len(labels)]) ELSE Some(labels[Min(fits)])

\* pd.cut(values, bins=[0, b1, .., inf], include_lowest=True): right-closed bins
Cut(v, edges, labels) ==
    IF v < 0 THEN NA
    ELSE LET fits == {i \in 1..Len(edges) : v <= edges[i]}
         IN  IF fits = {} THEN Some(labels[Len(labels)]) ELSE Some(labels[Min(fits)])

price_bins == <<500, 1500, 3000, 6000>>
price_labels == <<"Free/Cheap", "Budget", "Standard", "Premium", "AAA">>
popularity_bins == <<50000, 500000, 2000000, 10000000>>
popularity_labels == <<"Niche", "Indie", "Popular", "Hit", "Blockbuster">>

\* Series.max() skips missing cells; the maximum of no value is missing
ColumnMax(rows, c) ==
    LET present == {Val(rows[i][c]) : i \in {j \in 1..Len(rows) : ~IsNA(rows[j][c])}}
    IN  IF present = {} THEN NA ELSE Some(Max(present))

total_ratings(r) ==
    IF IsNA(r.positive_ratings) \/ IsNA(r.negative_ratings) THEN NA
    ELSE Some(Val(r.positive_ratings) + Val(r.negative_ratings))

\* a fault: the share of the negative ratings
positive_percentage_ofNegative(r) ==
    LET total == total_ratings(r)
    IN  IF ~IsNA(total) /\ Val(total) > 0
        THEN Ratio(Val(r.negative_ratings) * 100, Val(total))
        ELSE Ratio(0, 1)

\* np.where(total_ratings > 0, positive_ratings / total_ratings * 100, 0)
positive_percentage(r) ==
    LET total == total_ratings(r)
    IN  IF ~IsNA(total) /\ Val(total) > 0
        THEN Ratio(Val(r.positive_ratings) * 100, Val(total))
        ELSE Ratio(0, 1)

estimated_revenue(r) ==
    IF IsNA(r.price) THEN NA ELSE Some(parse_owners_range(r.owners) * Val(r.price))

\* (positive_percentage / 100 * 0.7 + log1p(playtime) / log1p(max playtime) * 0.3) * 100;
\* 0/0 (no playtime above zero in the table) and a missing operand give NaN
quality_score(r, max_playtime) ==
    IF IsNA(r.average_playtime) \/ IsNA(max_playtime) \/ log1p(Val(max_playtime)) = 0
    THEN NA
    ELSE LET pp == positive_percentage(r)
             lp == log1p(Val(r.average_playtime))
             lm == log1p(Val(max_playtime))
         IN  Some(Ratio(7 * pp.num * lm + 300 * pp.den * lp, 10 * pp.den * lm))

\* a fault: a fixed year instead of the clock's
years_since_release_fixedYear(r, year_now) ==
    IF IsNA(r.release_year) THEN NA ELSE Some(2026 - Val(r.release_year))

\* current_year - release_year, current_year being datetime.now().year
years_since_release(r, year_now) ==
    IF IsNA(r.release_year) THEN NA ELSE Some(year_now - Val(r.release_year))

MetricCells(r, max_playtime, year_now) ==
    [total_ratings |-> total_ratings(r),
     positive_percentage |-> positive_percentage(r),
     estimated_owners |-> parse_owners_range(r.owners),
     estimated_revenue |-> estimated_revenue(r),
     price_category |-> IF IsNA(r.price) THEN NA ELSE Cut(Val(r.price), price_bins, price_labels),
     popularity_tier |-> Cut(parse_owners_range(r.owners), popularity_bins, popularity_labels),
     quality_score |-> quality_score(r, max_playtime),
     years_since_release |-> years_since_release(r, year_now)]

MetricColumns ==
    {"total_ratings", "positive_percentage", "estimated_owners", "estimated_revenue",
     "price_category", "popularity_tier", "quality_score", "years_since_release"}

\* KeyError on a missing column; an exception _parse_owners_range lets through
create_calculated_metrics_raises(df) ==
    \/ ~HasCols(df, {"positive_ratings", "negative_ratings", "owners", "price",
                     "average_playtime", "release_year"})
    \/ \E i \in 1..Len(df.rows) : parse_owners_range_raises(df.rows[i].owners)

\* a fault: quality_score normalised by the playtime of the table's first row
create_calculated_metrics_firstRow(df, year_now) ==
    LET max_playtime == IF df.rows = <<>> THEN NA ELSE df.rows[1].average_playtime
        WithMetrics(r) == WithCells(r, MetricCells(r, max_playtime, year_now))
    IN  Table(df.columns \cup MetricColumns, [i \in 1..Len(df.rows) |-> WithMetrics(df.rows[i])])

create_calculated_metrics(df, year_now) ==
    LET max_playtime == ColumnMax(df.rows, "average_playtime")
        WithMetrics(r) == WithCells(r, MetricCells(r, max_playtime, year_now))
    IN  Table(df.columns \cup MetricColumns, [i \in 1..Len(df.rows) |-> WithMetrics(df.rows[i])])

\* the call: copy, then the metric columns assigned
create_calculated_metrics_call(df, year_now) ==
    Assigned(copy(Call(df)), create_calculated_metrics(df, year_now))

---------------------------------------------------------------------------
(* SteamDataTransformer.process_categorical_data *)

CategoricalCells(r) ==
    LET platform_count == IF IsNA(r.platforms) THEN 1 ELSE Len(Split(Val(r.platforms), ";"))
        Has(cell, pat) == ~IsNA(cell) /\ Contains(Val(cell), pat)
    IN  [primary_genre |-> IF IsNA(r.genres) THEN str_Unknown
                           ELSE Split(Val(r.genres), ";")[1],
         platform_count |-> platform_count,
         has_windows |-> Has(r.platforms, str_windows),
         has_mac |-> Has(r.platforms, str_mac),
         has_linux |-> Has(r.platforms, str_linux),
         is_multiplatform |-> platform_count > 1,
         is_multiplayer |-> Has(r.categories, str_Multi_player),
         is_singleplayer |-> Has(r.categories, str_Single_player),
         has_achievements |-> ~IsNA(r.achievements) /\ Val(r.achievements) > 0,
         is_free |-> ~IsNA(r.price) /\ Val(r.price) = 0]

CategoricalColumns ==
    {"primary_genre", "platform_count", "has_windows", "has_mac", "has_linux",
     "is_multiplatform", "is_multiplayer", "is_singleplayer", "has_achievements", "is_free"}

process_categorical_data_raises(df) ==
    ~HasCols(df, {"genres", "platforms", "categories", "achievements", "price"})

process_categorical_data(df) ==
    LET WithCategorical(r) == WithCells(r, CategoricalCells(r))
    IN  Table(df.columns \cup CategoricalColumns, [i \in 1..Len(df.rows) |-> WithCategorical(df.rows[i])])

\* the call: copy, then the categorical columns assigned
process_categorical_data_call(df) ==
    Assigned(copy(Call(df)), process_categorical_data(df))

---------------------------------------------------------------------------
(* SteamDataTransformer.apply_business_rules *)

MIN_TOTAL_RATINGS == 10

\* a fault: the threshold itself is excluded
BusinessRule_moreThan(r) ==
    /\ ~IsNA(r.name)
    /\ Val(r.name) # str_Unknown
    /\ Val(r.name) # <<>>
    /\ ~IsNA(r.total_ratings) /\ Val(r.total_ratings) > MIN_TOTAL_RATINGS

BusinessRule(r) ==
    /\ ~IsNA(r.name)
    /\ Val(r.name) # str_Unknown
    /\ Val(r.name) # <<>>
    /\ ~IsNA(r.total_ratings) /\ Val(r.total_ratings) >= MIN_TOTAL_RATINGS

apply_business_rules_raises(df) == ~HasCols(df, {"name", "total_ratings"})

\* a fault: quality_score is normalised again over the rows that are kept
apply_business_rules_renormalised(df) ==
    LET kept == SelectSeq(df.rows, BusinessRule)
        Renormalised(r) ==
            [r EXCEPT !.quality_score = quality_score(r, ColumnMax(kept, "average_playtime"))]
    IN  Table(df.columns, [i \in 1..Len(kept) |-> Renormalised(kept[i])])

apply_business_rules(df) == Table(df.columns, SelectSeq(df.rows, BusinessRule))

\* the call: copy, then the filter into a new table
apply_business_rules_call(df) == Rebound(copy(Call(df)), apply_business_rules(df))

---------------------------------------------------------------------------
(* SteamDataTransformer.get_transformation_summary *)

\* (len(df_original) - len(df_final)) / len(df_original): ZeroDivisionError on a
\* table without rows
get_transformation_summary_raises(df_original, df_result) == Length(df_original) = 0

get_transformation_summary(df_original, df_result) ==
    [original_records |-> Length(df_original),
     final_records |-> Length(df_result),
     records_removed |-> Length(df_original) - Length(df_result),
     removal_percentage |-> Ratio((Length(df_original) - Length(df_result)) * 100,
                                  Length(df_original)),
     new_columns_added |-> Cardinality(df_result.columns) - Cardinality(df_original.columns)]

---------------------------------------------------------------------------
(* SteamDataLoader: the aggregates written beside the main table *)

\* a <= b for two fractions
RatioLeq(a, b) == a.num * b.den <= b.num * a.den

\* DataFrame.nlargest(n, column): descending, ties in table order, rows whose
\* key is missing last
SortKey(r, column) == IF column = "estimated_owners" THEN Some(r[column]) ELSE r[column]
KeyLeq(column, a, b) == IF column = "quality_score" THEN RatioLeq(a, b) ELSE a <= b

Before(rows, i, j, column) ==
    LET ki == SortKey(rows[i], column)
        kj == SortKey(rows[j], column)
    IN  IF IsNA(ki) THEN IsNA(kj) /\ i < j
        ELSE IF IsNA(kj) THEN TRUE
        ELSE IF Val(ki) = Val(kj) THEN i < j
        ELSE KeyLeq(column, Val(kj), Val(ki))

nlargest(n, rows, column) ==
    LET rank(i) == Cardinality({j \in 1..Len(rows) : j # i /\ Before(rows, j, i, column)})
        sorted == [k \in 1..Len(rows) |-> rows[CHOOSE i \in 1..Len(rows) : rank(i) = k - 1]]
    IN  SubSeq(sorted, 1, IF Len(rows) < n THEN Len(rows) ELSE n)

Project(rows, cols) == [i \in 1..Len(rows) |-> [c \in cols |-> rows[i][c]]]

RECURSIVE SumOver(_, _)
SumOver(S, f) ==
    IF S = {} THEN 0 ELSE LET x == CHOOSE y \in S : TRUE IN f[x] + SumOver(S \ {x}, f)

\* df.groupby('primary_genre').agg(..): one record per genre (of the aggregates,
\* the counts and the integer sums are kept)
create_genre_statistics(df) ==
    LET idx == 1..Len(df.rows)
        Owners == [i \in idx |-> df.rows[i].estimated_owners]
    IN  {[primary_genre |-> g,
          total_games |-> Cardinality({i \in idx : df.rows[i].primary_genre = g}),
          estimated_owners_sum |-> SumOver({i \in idx : df.rows[i].primary_genre = g}, Owners)]
         : g \in {df.rows[i].primary_genre : i \in idx}}

\* df.groupby('release_year').agg(..): rows without a year belong to no group
create_year_statistics(df) ==
    LET idx == {i \in 1..Len(df.rows) : ~IsNA(df.rows[i].release_year)}
        InYear(y) == {i \in idx : df.rows[i].release_year = Some(y)}
    IN  {[release_year |-> y,
          total_games |-> Cardinality(InYear(y)),
          free_games |-> Cardinality({i \in InYear(y) : df.rows[i].is_free}),
          games_with_achievements |-> Cardinality({i \in InYear(y) : df.rows[i].has_achievements})]
         : y \in {Val(df.rows[i].release_year) : i \in idx}}

GenreStatisticsColumns ==
    {"primary_genre", "appid", "price", "estimated_revenue", "positive_percentage",
     "quality_score", "estimated_owners", "average_playtime"}
YearStatisticsColumns ==
    {"release_year", "appid", "price", "estimated_revenue", "positive_percentage",
     "quality_score", "estimated_owners", "is_free", "has_achievements"}

TOP_N_DATABASE == 50
TOP_N_EXCEL == 100

TopRevenueColumns == {"appid", "name", "estimated_revenue", "price", "estimated_owners"}
TopQualityColumns == {"appid", "name", "quality_score", "positive_percentage", "total_ratings"}
TopPopularColumns == {"appid", "name", "estimated_owners", "total_ratings", "average_playtime"}

---------------------------------------------------------------------------
(* SteamDataLoader.save_to_database: the tables in the order they are written.
   Each to_sql(if_exists='replace') replaces one table and commits it. *)

\* a fault: the last aggregate table is never written
DatabaseTables_withoutTopPopular ==
    <<"games", "genre_statistics", "year_statistics", "top_revenue", "top_quality">>

DatabaseTables ==
    <<"games", "genre_statistics", "year_statistics", "top_revenue", "top_quality",
      "top_popular">>

\* the columns of df a table is computed from; without them pandas raises
DatabaseTableNeeds(t) ==
    CASE t = "games" -> {}
      [] t = "genre_statistics" -> GenreStatisticsColumns
      [] t = "year_statistics" -> YearStatisticsColumns
      [] t = "top_revenue" -> TopRevenueColumns
      [] t = "top_quality" -> TopQualityColumns
      [] t = "top_popular" -> TopPopularColumns

DatabaseTableContents(t, df) ==
    CASE t = "games" -> df
      [] t = "genre_statistics" -> create_genre_statistics(df)
      [] t = "year_statistics" -> create_year_statistics(df)
      [] t = "top_revenue" ->
            Project(nlargest(TOP_N_DATABASE, df.rows, "estimated_revenue"), TopRevenueColumns)
      [] t = "top_quality" ->
            Project(nlargest(TOP_N_DATABASE, df.rows, "quality_score"), TopQualityColumns)
      [] t = "top_popular" ->
            Project(nlargest(TOP_N_DATABASE, df.rows, "estimated_owners"), TopPopularColumns)

\* a fault: to_sql(if_exists='append') keeps the rows a table already holds
RECURSIVE ReplaceTables_append(_, _, _)
ReplaceTables_append(db, df, k) ==
    IF k = 0 THEN db
    ELSE LET t == DatabaseTables[k]
             new == DatabaseTableContents(t, df)
         IN  (t :> IF t = "games" /\ t \in DOMAIN db
                   THEN Table(db[t].columns \cup new.columns, db[t].rows \o new.rows)
                   ELSE new)
                @@ ReplaceTables_append(db, df, k - 1)

\* the database after the first k tables of the list have been replaced from df
RECURSIVE ReplaceTables(_, _, _)
ReplaceTables(db, df, k) ==
    IF k = 0 THEN db
    ELSE (DatabaseTables[k] :> DatabaseTableContents(DatabaseTables[k], df))
            @@ ReplaceTables(db, df, k - 1)

\* the first table that cannot be computed from df (7 when all six can)
FirstUnwritable(df) ==
    Min({k \in 1..Len(DatabaseTables) : ~HasCols(df, DatabaseTableNeeds(DatabaseTables[k]))}
        \cup {Len(DatabaseTables) + 1})

---------------------------------------------------------------------------
(* SteamDataLoader.save_to_excel: the sheets in the order they are written *)

ExcelSheets == <<"All_Games", "Top_Revenue", "Top_Quality", "Genre_Stats", "Year_Stats">>

ExcelSheetNeeds(sh) ==
    CASE sh = "All_Games" -> {}
      [] sh = "Top_Revenue" -> {"estimated_revenue"}
      [] sh = "Top_Quality" -> {"quality_score"}
      [] sh = "Genre_Stats" -> GenreStatisticsColumns
      [] sh = "Year_Stats" -> YearStatisticsColumns

ExcelSheetContents(sh, df) ==
    CASE sh = "All_Games" -> df
      [] sh = "Top_Revenue" -> nlargest(TOP_N_EXCEL, df.rows, "estimated_revenue")
      [] sh = "Top_Quality" -> nlargest(TOP_N_EXCEL, df.rows, "quality_score")
      [] sh = "Genre_Stats" -> create_genre_statistics(df)
      [] sh = "Year_Stats" -> create_year_statistics(df)

\* the workbook holding the first k sheets computed from df
Workbook(df, k) == [i \in 1..k |-> [sheet |-> ExcelSheets[i],
                                   data |-> ExcelSheetContents(ExcelSheets[i], df)]]

FirstUnwritableSheet(df) ==
    Min({k \in 1..Len(ExcelSheets) : ~HasCols(df, ExcelSheetNeeds(ExcelSheets[k]))}
        \cup {Len(ExcelSheets) + 1})

---------------------------------------------------------------------------
(* The raw CSV files the pipeline is run on *)

name_Alpha == <<"A", "l", "p", "h", "a">>
name_Beta_padded == <<" ", "B", "e", "t", "a", " ">>
name_blank == <<" ">>
date_2009_12_31 == <<"2", "0", "0", "9", "-", "1", "2", "-", "3", "1">>
date_2010_01_01 == <<"2", "0", "1", "0", "-", "0", "1", "-", "0", "1">>
date_2015_07_04 == <<"2", "0", "1", "5", "-", "0", "7", "-", "0", "4">>
date_2015_02_30 == <<"2", "0", "1", "5", "-", "0", "2", "-", "3", "0">>
date_TBA == <<"T", "B", "A">>
owners_0_20000 == <<"0", "-", "2", "0", "0", "0", "0">>
owners_1M_2M == <<"1", "0", "0", "0", "0", "0", "0", "-", "2", "0", "0", "0", "0", "0", "0">>
platforms_all == <<"w", "i", "n", "d", "o", "w", "s", ";", "m", "a", "c", ";", "l", "i", "n", "u", "x">>
platforms_mac_linux == <<"m", "a", "c", ";", "l", "i", "n", "u", "x">>
genres_Action_Indie == <<"A", "c", "t", "i", "o", "n", ";", "I", "n", "d", "i", "e">>
genres_RPG == <<"R", "P", "G">>
categories_single == <<"S", "i", "n", "g", "l", "e", "-", "p", "l", "a", "y", "e", "r">>
categories_both == <<"S", "i", "n", "g", "l", "e", "-", "p", "l", "a", "y", "e", "r", ";", "M", "u", "l", "t", "i", "-", "p", "l", "a", "y", "e", "r">>
dev_Valve == <<"V", "a", "l", "v", "e">>

AppIds == 1..MaxAppId

\* a game that passes every filter of the transform
AlphaRow(a) ==
    [appid |-> a, name |-> Some(name_Alpha), release_date |-> Some(date_2015_07_04),
     price |-> Some(999), positive_ratings |-> Some(9), negative_ratings |-> Some(1),
     owners |-> Some(owners_0_20000), platforms |-> Some(platforms_all),
     categories |-> Some(categories_single), genres |-> Some(genres_Action_Indie),
     achievements |-> Some(5), average_playtime |-> Some(63), developer |-> Some(dev_Valve)]

\* another game that passes: padded name, first day of MIN_YEAR, cells to fill
BetaRow(a) ==
    [appid |-> a, name |-> Some(name_Beta_padded), release_date |-> Some(date_2010_01_01),
     price |-> NA, positive_ratings |-> Some(30), negative_ratings |-> Some(10),
     owners |-> Some(owners_1M_2M), platforms |-> Some(platforms_mac_linux),
     categories |-> Some(categories_both), genres |-> Some(genres_RPG),
     achievements |-> NA, average_playtime |-> Some(1023), developer |-> NA]

\* a game released on the last day before MIN_YEAR
OldRow(a) == [AlphaRow(a) EXCEPT !.release_date = Some(date_2009_12_31)]

SeqsUpTo(S, n) == UNION {[1..k -> S] : k \in 0..n}

WithoutColumn(r, col) == [c \in (DOMAIN r) \ {col} |-> r[c]]

\* the raw files of the pipeline runs: a header without rows; a duplicated appid;
\* two games; one game older than MIN_YEAR; a file without the release_date column
FileTables ==
    {Table(RawColumns, <<>>),
     Table(RawColumns, <<AlphaRow(1), BetaRow(1)>>),
     Table(RawColumns, <<BetaRow(1), AlphaRow(2)>>),
     Table(RawColumns, <<OldRow(1)>>),
     Table(RawColumns \ {"release_date"}, <<WithoutColumn(AlphaRow(1), "release_date")>>)}

\* RAW_STEAM_FILE: no such file, a file read_csv cannot parse, or a table
RawFileStates ==
    {[kind |-> "absent"], [kind |-> "malformed"]}
    \cup {[kind |-> "table", df |-> t] : t \in FileTables}

ClockYears == {2026}

---------------------------------------------------------------------------
(* SteamDataExtractor.extract_csv_data, SteamETLPipeline.run_extract *)

\* FileNotFoundError, or read_csv's parse error; both are re-raised
extract_csv_data_raises(file) == file.kind # "table"
\* a fault: every failure reported as a missing file
extract_csv_data_error_alwaysNotFound(file) == "FileNotFoundError"

\* what is raised: FileNotFoundError by the existence check, read_csv's own
\* error (pandas.errors.ParserError and its kin) on a file it cannot parse
extract_csv_data_error(file) ==
    CASE file.kind = "absent" -> "FileNotFoundError"
      [] file.kind = "malformed" -> "ParserError"
extract_csv_data(file) == file.df

---------------------------------------------------------------------------
(* SteamETLPipeline and main: one process per run *)

Args == [skip_extract : BOOLEAN, skip_transform : BOOLEAN, skip_load : BOOLEAN]

\* a wiring fault: --skip-extract and --skip-load reach each other's parameter
run_pipeline_kwargs_crossed(a) ==
    [skip_extract |-> a.skip_load, skip_transform |-> a.skip_transform,
     skip_load |-> a.skip_extract]

\* main: run_pipeline(skip_extract=args.skip_extract, ..)
run_pipeline_kwargs(a) ==
    [skip_extract |-> a.skip_extract, skip_transform |-> a.skip_transform,
     skip_load |-> a.skip_load]

skip_extract == run_pipeline_kwargs(args).skip_extract
skip_transform == run_pipeline_kwargs(args).skip_transform
skip_load == run_pipeline_kwargs(args).skip_load

Init ==
    /\ pc = "idle"
    /\ args = [skip_extract |-> FALSE, skip_transform |-> FALSE, skip_load |-> FALSE]
    /\ raw_file = [kind |-> "absent"]
    /\ df_current = None
    /\ df_raw = None /\ df_clean = None /\ df_dates = None
    /\ df_metrics = None /\ df_categorical = None /\ df_final = None
    /\ success_count = 0
    /\ load_success = None
    /\ raised = "none"
    /\ exception = "none"
    /\ events = <<>>
    /\ warnings = {}
    /\ result = None
    /\ exit_code = None
    /\ csv_file = None
    /\ excel_file = None
    /\ database = <<>>
    /\ db_saves = <<>>
    /\ db_indexes = {} /\ index_faults = {}
    /\ saved = <<>>
    /\ current_year \in ClockYears
    /\ runs = 0
    /\ previous = None
    /\ dash_pc = "idle" /\ dash_df = None /\ filters = None /\ filtered_df = None
    /\ load_data_cache = None
    /\ steam_api_key = FALSE
    /\ app_ids = <<>> /\ api_index = 0 /\ api_data = <<>>
    /\ api_requests = 0 /\ api_warnings = {}
    /\ api_queried = <<>> /\ api_status = NA
    /\ api_pc = "idle"

\* python run_pipeline.py [--skip-extract] [--skip-transform] [--skip-load]
Start ==
    /\ pc \in {"idle", "exited"}
    /\ runs < MaxRuns
    /\ \E a \in Args, f \in RawFileStates, y \in ClockYears :
          /\ args' = a
          /\ raw_file' = f
          /\ current_year' = y
    /\ df_current' = None
    /\ df_raw' = None /\ df_clean' = None /\ df_dates' = None
    /\ df_metrics' = None /\ df_categorical' = None /\ df_final' = None
    /\ success_count' = 0
    /\ saved' = <<>>
    /\ load_success' = None
    /\ raised' = "none" /\ exception' = "none"
    /\ events' = <<>>
    /\ warnings' = {}
    /\ result' = None
    /\ exit_code' = None
    /\ runs' = runs + 1
    /\ pc' = "extract"
    /\ UNCHANGED <<artifacts, beside>>

\* a fault: run_extract's table is discarded instead of kept in df_current
ExtractStage_discardsTable ==
    /\ pc = "extract"
    /\ IF skip_extract
       THEN UNCHANGED <<raised, exception, events>> /\ pc' = "transform"
       ELSE IF extract_csv_data_raises(raw_file)
       THEN /\ events' = Append(events, "extract")
            /\ raised' = "extract" /\ exception' = extract_csv_data_error(raw_file)
            /\ pc' = "except"
       ELSE /\ events' = events \o <<"extract", "extract_done">>
            /\ pc' = "transform"
            /\ UNCHANGED <<raised, exception>>
    /\ UNCHANGED <<args, raw_file, df_current, transform_locals, success_count, saved,
                   load_success, warnings, result, exit_code, artifacts, current_year,
                   runs, beside>>

\* run_pipeline, EXTRACT
ExtractStage ==
    /\ pc = "extract"
    /\ IF skip_extract
       THEN /\ pc' = "transform"
            /\ UNCHANGED <<df_current, raised, exception, events>>
       ELSE IF extract_csv_data_raises(raw_file)
       THEN /\ events' = Append(events, "extract")
            /\ raised' = "extract" /\ exception' = extract_csv_data_error(raw_file)
            /\ pc' = "except"
            /\ UNCHANGED df_current
       ELSE /\ events' = events \o <<"extract", "extract_done">>
            /\ df_current' = Some(extract_csv_data(raw_file))
            /\ pc' = "transform"
            /\ UNCHANGED <<raised, exception>>
    /\ UNCHANGED <<args, raw_file, transform_locals, success_count, saved, load_success,
                   warnings, result, exit_code, artifacts, current_year, runs, beside>>

\* a fault: the extraction is run again although there is a table
TransformStage_extractsAgain ==
    /\ pc = "transform"
    /\ IF skip_transform
       THEN /\ pc' = "load"
            /\ UNCHANGED <<df_current, df_raw, raised, exception, events, warnings>>
       ELSE IF extract_csv_data_raises(raw_file)
       THEN /\ warnings' = warnings \cup {"no_data_to_transform"}
            /\ events' = Append(events, "extract")
            /\ raised' = "extract" /\ exception' = extract_csv_data_error(raw_file)
            /\ pc' = "except"
            /\ UNCHANGED <<df_current, df_raw>>
       ELSE /\ warnings' = warnings \cup {"no_data_to_transform"}
            /\ events' = events \o <<"extract", "extract_done", "transform">>
            /\ df_current' = Some(extract_csv_data(raw_file))
            /\ df_raw' = Some(extract_csv_data(raw_file))
            /\ pc' = "clean_basic_data"
            /\ UNCHANGED <<raised, exception>>
    /\ UNCHANGED <<args, raw_file, df_clean, df_dates, df_metrics, df_categorical,
                   df_final, success_count, saved, load_success, result, exit_code,
                   artifacts, current_year, runs, beside>>

\* run_pipeline, TRANSFORM: the extraction is run first when there is no table,
\* then run_transform is entered
TransformStage ==
    /\ pc = "transform"
    /\ IF skip_transform
       THEN /\ pc' = "load"
            /\ UNCHANGED <<df_current, df_raw, raised, exception, events, warnings>>
       ELSE IF df_current # None
       THEN /\ df_raw' = df_current
            /\ events' = Append(events, "transform")
            /\ pc' = "clean_basic_data"
            /\ UNCHANGED <<df_current, raised, exception, warnings>>
       ELSE IF extract_csv_data_raises(raw_file)
       THEN /\ warnings' = warnings \cup {"no_data_to_transform"}
            /\ events' = Append(events, "extract")
            /\ raised' = "extract" /\ exception' = extract_csv_data_error(raw_file)
            /\ pc' = "except"
            /\ UNCHANGED <<df_current, df_raw>>
       ELSE /\ warnings' = warnings \cup {"no_data_to_transform"}
            /\ events' = events \o <<"extract", "extract_done", "transform">>
            /\ df_current' = Some(extract_csv_data(raw_file))
            /\ df_raw' = Some(extract_csv_data(raw_file))
            /\ pc' = "clean_basic_data"
            /\ UNCHANGED <<raised, exception>>
    /\ UNCHANGED <<args, raw_file, df_clean, df_dates, df_metrics, df_categorical,
                   df_final, success_count, saved, load_success, result, exit_code,
                   artifacts, current_year, runs, beside>>

---------------------------------------------------------------------------
(* SteamETLPipeline.run_transform: one step per pass *)

\* the five passes, in call order
PassEvents ==
    <<"clean_basic_data", "transform_dates", "create_calculated_metrics",
      "process_categorical_data", "apply_business_rules">>

\* the position after a pass has returned
NextPass(p) ==
    CASE p = "clean_basic_data" -> "transform_dates"
      [] p = "transform_dates" -> "create_calculated_metrics"
      [] p = "create_calculated_metrics" -> "process_categorical_data"
      [] p = "process_categorical_data" -> "apply_business_rules"
      [] p = "apply_business_rules" -> "summary"

PassFrame ==
    UNCHANGED <<args, raw_file, success_count, saved, load_success,
                warnings, result, exit_code, artifacts, current_year, runs, beside>>

CleanBasicData ==
    /\ pc = "clean_basic_data"
    /\ events' = Append(events, "clean_basic_data")
    /\ IF clean_basic_data_raises(Val(df_raw))
       THEN /\ raised' = "transform" /\ exception' = "KeyError" /\ pc' = "except"
            /\ UNCHANGED <<df_current, df_raw, df_clean>>
       ELSE LET call == clean_basic_data_call(Val(df_raw))
            IN  /\ df_clean' = Some(call.local)
                /\ df_raw' = Some(call.arg)
                /\ df_current' = Some(call.arg)    \* run_pipeline's name for df_raw's object
                /\ pc' = NextPass("clean_basic_data")
                /\ UNCHANGED <<raised, exception>>
    /\ UNCHANGED <<df_dates, df_metrics, df_categorical, df_final>>
    /\ PassFrame

TransformDates ==
    /\ pc = "transform_dates"
    /\ events' = Append(events, "transform_dates")
    /\ IF transform_dates_raises(Val(df_clean))
       THEN /\ raised' = "transform" /\ exception' = "KeyError" /\ pc' = "except"
            /\ UNCHANGED <<df_clean, df_dates>>
       ELSE LET call == transform_dates_call(Val(df_clean), MIN_YEAR)
            IN  /\ df_dates' = Some(call.local)
                /\ df_clean' = Some(call.arg)
                /\ pc' = NextPass("transform_dates")
                /\ UNCHANGED <<raised, exception>>
    /\ UNCHANGED <<df_current, df_raw, df_metrics, df_categorical, df_final>>
    /\ PassFrame

CreateCalculatedMetrics ==
    /\ pc = "create_calculated_metrics"
    /\ events' = Append(events, "create_calculated_metrics")
    /\ IF create_calculated_metrics_raises(Val(df_dates))
       THEN /\ raised' = "transform" /\ exception' = "KeyError" /\ pc' = "except"
            /\ UNCHANGED <<df_dates, df_metrics>>
       ELSE LET call == create_calculated_metrics_call(Val(df_dates), current_year)
            IN  /\ df_metrics' = Some(call.local)
                /\ df_dates' = Some(call.arg)
                /\ pc' = NextPass("create_calculated_metrics")
                /\ UNCHANGED <<raised, exception>>
    /\ UNCHANGED <<df_current, df_raw, df_clean, df_categorical, df_final>>
    /\ PassFrame

ProcessCategoricalData ==
    /\ pc = "process_categorical_data"
    /\ events' = Append(events, "process_categorical_data")
    /\ IF process_categorical_data_raises(Val(df_metrics))
       THEN /\ raised' = "transform" /\ exception' = "KeyError" /\ pc' = "except"
            /\ UNCHANGED <<df_metrics, df_categorical>>
       ELSE LET call == process_categorical_data_call(Val(df_metrics))
            IN  /\ df_categorical' = Some(call.local)
                /\ df_metrics' = Some(call.arg)
                /\ pc' = NextPass("process_categorical_data")
                /\ UNCHANGED <<raised, exception>>
    /\ UNCHANGED <<df_current, df_raw, df_clean, df_dates, df_final>>
    /\ PassFrame

ApplyBusinessRules ==
    /\ pc = "apply_business_rules"
    /\ events' = Append(events, "apply_business_rules")
    /\ IF apply_business_rules_raises(Val(df_categorical))
       THEN /\ raised' = "transform" /\ exception' = "KeyError" /\ pc' = "except"
            /\ UNCHANGED <<df_categorical, df_final>>
       ELSE LET call == apply_business_rules_call(Val(df_categorical))
            IN  /\ df_final' = Some(call.local)
                /\ df_categorical' = Some(call.arg)
                /\ pc' = NextPass("apply_business_rules")
                /\ UNCHANGED <<raised, exception>>
    /\ UNCHANGED <<df_current, df_raw, df_clean, df_dates, df_metrics>>
    /\ PassFrame

\* get_transformation_summary, the statistics, and run_transform's return into
\* run_pipeline's df_current
TransformSummary ==
    /\ pc = "summary"
    /\ IF get_transformation_summary_raises(Val(df_raw), Val(df_final))
       THEN /\ raised' = "transform" /\ exception' = "ZeroDivisionError" /\ pc' = "except"
            /\ UNCHANGED <<df_current, events>>
       ELSE /\ df_current' = df_final
            /\ events' = Append(events, "transform_done")
            /\ pc' = "load"
            /\ UNCHANGED <<raised, exception>>
    /\ UNCHANGED <<args, raw_file, transform_locals, success_count, saved, load_success,
                   warnings, result, exit_code, artifacts, current_year, runs, beside>>

---------------------------------------------------------------------------
(* SteamETLPipeline.run_load: one step per target. A save catches every
   exception of its write and returns False. *)

LoadFrame ==
    UNCHANGED <<args, raw_file, df_current, transform_locals, load_success, raised, exception,
                warnings, result, exit_code, current_year, runs, beside>>

\* success_count += 1 when the save returned True
Counted(count, returned) == IF returned THEN count + 1 ELSE count

\* a fault: without a table the load stage is passed over instead of raising
LoadStage_passesWithoutTable ==
    /\ pc = "load"
    /\ IF skip_load
       THEN pc' = "finish" /\ UNCHANGED <<raised, exception, events>>
       ELSE IF df_current = None
       THEN pc' = "finish" /\ UNCHANGED <<raised, exception, events>>
       ELSE /\ events' = Append(events, "load")
            /\ pc' = "save_to_csv"
            /\ UNCHANGED <<raised, exception>>
    /\ success_count' = 0
    /\ UNCHANGED <<args, raw_file, df_current, transform_locals, saved, load_success,
                   warnings, result, exit_code, artifacts, current_year, runs, beside>>

\* run_pipeline, LOAD: without a table it raises ValueError, else run_load is entered
LoadStage ==
    /\ pc = "load"
    /\ IF skip_load
       THEN pc' = "finish" /\ UNCHANGED <<raised, exception, events>>
       ELSE IF df_current = None
       THEN raised' = "load" /\ exception' = "ValueError" /\ pc' = "except" /\ UNCHANGED events
       ELSE /\ events' = Append(events, "load")
            /\ pc' = "save_to_csv"
            /\ UNCHANGED <<raised, exception>>
    /\ success_count' = 0
    /\ UNCHANGED <<args, raw_file, df_current, transform_locals, saved, load_success,
                   warnings, result, exit_code, artifacts, current_year, runs, beside>>

\* save_to_csv: the file is written whole, or the write fails and leaves it
SaveToCsv ==
    /\ pc = "save_to_csv"
    /\ \E written \in BOOLEAN :
          /\ csv_file' = IF written THEN df_current ELSE csv_file
          /\ success_count' = Counted(success_count, written)
          /\ saved' = Append(saved, written)
    /\ events' = Append(events, "save_to_csv")
    /\ pc' = "save_to_excel"
    /\ UNCHANGED <<excel_file, database, db_saves, db_indexes>>
    /\ LoadFrame

\* where a save stops: before anything is written (the file or the database
\* cannot be opened, or is locked), or at the first part that cannot be computed
\* from df (all parts written when none is)
StopPoints(first_unwritable) == {0, first_unwritable - 1}

\* save_to_excel: sheet after sheet; the writer saves the sheets it holds when
\* the block is left, also by an exception
SaveToExcel ==
    /\ pc = "save_to_excel"
    /\ \E sheets \in StopPoints(FirstUnwritableSheet(Val(df_current))) :
          /\ excel_file' = IF sheets = 0 THEN excel_file
                           ELSE Some(Workbook(Val(df_current), sheets))
          /\ success_count' = Counted(success_count, sheets = Len(ExcelSheets))
          /\ saved' = Append(saved, sheets = Len(ExcelSheets))
    /\ events' = Append(events, "save_to_excel")
    /\ pc' = "save_to_database"
    /\ UNCHANGED <<csv_file, database, db_saves, db_indexes>>
    /\ LoadFrame

\* save_to_database: table after table, each replaced and committed by its own
\* to_sql; an exception leaves the tables replaced so far
LastTwo(calls) == IF Len(calls) > 2 THEN Tail(calls) ELSE calls

\* _create_indexes: one CREATE INDEX IF NOT EXISTS per column, each in its own
\* try. A statement fails when the column is not in the table or the database
\* refuses it.
Indexes ==
    <<"appid", "release_year", "primary_genre", "price_category", "estimated_revenue",
      "quality_score">>

index_fails(column, df, faults) == column \in faults \/ ~HasCol(df, column)

\* a fault: the first failing statement's error leaves _create_indexes
create_indexes_raises_onFailure(df, faults) ==
    \E k \in 1..Len(Indexes) : index_fails(Indexes[k], df, faults)

\* except Exception: logger.warning(...), and the loop goes on
create_indexes_raises(df, faults) == FALSE

\* the indexes the games table has when _create_indexes is left
create_indexes(df, faults) ==
    LET failing == {k \in 1..Len(Indexes) : index_fails(Indexes[k], df, faults)}
        attempted == IF create_indexes_raises(df, faults) THEN 1..(Min(failing) - 1)
                                                          ELSE 1..Len(Indexes)
    IN  {Indexes[k] : k \in attempted \ failing}

\* save_to_database's return value when it wrote `tables` tables
save_to_database_returns(df, tables, faults) ==
    tables = Len(DatabaseTables) /\ ~create_indexes_raises(df, faults)

SaveToDatabase ==
    /\ pc = "save_to_database"
    /\ \E tables \in StopPoints(FirstUnwritable(Val(df_current))) :
          LET returned == save_to_database_returns(Val(df_current), tables, index_faults)
          IN  /\ database' = ReplaceTables(database, Val(df_current), tables)
              \* to_sql(if_exists='replace') drops the games table, its indexes with it
              /\ db_indexes' = IF tables = 0 THEN db_indexes
                               ELSE IF tables < Len(DatabaseTables) THEN {}
                               ELSE create_indexes(Val(df_current), index_faults)
              /\ db_saves' = LastTwo(Append(db_saves,
                                    [df |-> Val(df_current), tables |-> tables,
                                     returned |-> returned]))
              /\ success_count' = Counted(success_count, returned)
              /\ saved' = Append(saved, returned)
    /\ events' = Append(events, "save_to_database")
    /\ pc' = "load_end"
    /\ UNCHANGED <<csv_file, excel_file>>
    /\ LoadFrame

TOTAL_FORMATS == 3

\* a fault: one saved format is taken for success
run_load_returns_any(count) == count > 0

\* return success_count == 3
run_load_returns(count) == count = TOTAL_FORMATS

\* run_load returns; run_pipeline logs a warning when it returned False
LoadEnd ==
    /\ pc = "load_end"
    /\ load_success' = Some(run_load_returns(success_count))
    /\ warnings' = IF run_load_returns(success_count) THEN warnings
                   ELSE warnings \cup {"not_all_formats_saved"}
    /\ events' = Append(events, "load_done")
    /\ pc' = "finish"
    /\ UNCHANGED <<args, raw_file, df_current, transform_locals, success_count, saved,
                   raised, exception, result, exit_code, artifacts, current_year, runs, beside>>

---------------------------------------------------------------------------
(* run_pipeline's two returns and main's exit *)

ReturnFrame ==
    UNCHANGED <<args, raw_file, df_current, transform_locals, success_count, saved,
                load_success, raised, exception, events, warnings, exit_code, artifacts,
                current_year, runs, beside>>

\* a variant: run_pipeline returns what run_load returned
ReturnTrue_returnsLoadSuccess ==
    /\ pc = "finish"
    /\ result' = IF load_success = None THEN Some(TRUE) ELSE load_success
    /\ pc' = "main"
    /\ ReturnFrame

\* the summary is printed and run_pipeline returns True
ReturnTrue ==
    /\ pc = "finish"
    /\ result' = Some(TRUE)
    /\ pc' = "main"
    /\ ReturnFrame

\* a fault: the handler logs the error and reports success
ReturnFalse_returnsTrue ==
    /\ pc = "except"
    /\ result' = Some(TRUE)
    /\ pc' = "main"
    /\ ReturnFrame

\* except Exception: run_pipeline returns False
ReturnFalse ==
    /\ pc = "except"
    /\ result' = Some(FALSE)
    /\ pc' = "main"
    /\ ReturnFrame

\* main: sys.exit(1) unless run_pipeline returned True
ExitCode(success) == IF success THEN 0 ELSE 1

Exit ==
    /\ pc = "main"
    /\ exit_code' = Some(ExitCode(Val(result)))
    /\ pc' = "exited"
    /\ UNCHANGED <<args, raw_file, df_current, transform_locals, success_count, saved,
                   load_success, raised, exception, events, warnings, result, artifacts,
                   current_year, runs, beside>>

Next ==
    \/ Start
    \/ ExtractStage
    \/ TransformStage
    \/ CleanBasicData
    \/ TransformDates
    \/ CreateCalculatedMetrics
    \/ ProcessCategoricalData
    \/ ApplyBusinessRules
    \/ TransformSummary
    \/ LoadStage
    \/ SaveToCsv
    \/ SaveToExcel
    \/ SaveToDatabase
    \/ LoadEnd
    \/ ReturnTrue
    \/ ReturnFalse
    \/ Exit

Spec == Init /\ [][Next]_vars

---------------------------------------------------------------------------
(* The transform chain on its own (run_transform entered with a raw table):
   tables of up to MaxRows rows over the appids, names and release dates below *)

TransformNames == {Some(name_Alpha), Some(name_Beta_padded)}
TransformReleaseDates ==
    {Some(date_2009_12_31), Some(date_2010_01_01), Some(date_2015_02_30), Some(date_TBA), NA}

TransformRows ==
    {[AlphaRow(a) EXCEPT !.name = n, !.release_date = d] :
        a \in AppIds, n \in TransformNames, d \in TransformReleaseDates}

TransformInputs == {Table(RawColumns, rows) : rows \in SeqsUpTo(TransformRows, MaxRows)}

\* run_transform entered with one of `tables` as df_raw
InitTransformOn(tables) ==
    /\ pc = "clean_basic_data"
    /\ args = [skip_extract |-> FALSE, skip_transform |-> FALSE, skip_load |-> FALSE]
    /\ \E t \in tables :
          /\ raw_file = [kind |-> "table", df |-> t]
          /\ df_current = Some(t)
          /\ df_raw = Some(t)
    /\ df_clean = None /\ df_dates = None
    /\ df_metrics = None /\ df_categorical = None /\ df_final = None
    /\ success_count = 0
    /\ saved = <<>>
    /\ load_success = None
    /\ raised = "none"
    /\ exception = "none"
    /\ events = <<"extract", "extract_done", "transform">>
    /\ warnings = {}
    /\ result = None
    /\ exit_code = None
    /\ csv_file = None
    /\ excel_file = None
    /\ database = <<>>
    /\ db_saves = <<>>
    /\ db_indexes = {} /\ index_faults = {}
    /\ current_year \in ClockYears
    /\ runs = 1
    /\ previous = None
    /\ dash_pc = "idle" /\ dash_df = None /\ filters = None /\ filtered_df = None
    /\ load_data_cache = None
    /\ steam_api_key = FALSE
    /\ app_ids = <<>> /\ api_index = 0 /\ api_data = <<>>
    /\ api_requests = 0 /\ api_warnings = {}
    /\ api_queried = <<>> /\ api_status = NA
    /\ api_pc = "idle"

InitTransform == InitTransformOn(TransformInputs)

NextTransform ==
    \/ CleanBasicData
    \/ TransformDates
    \/ CreateCalculatedMetrics
    \/ ProcessCategoricalData
    \/ ApplyBusinessRules
    \/ TransformSummary

SpecTransform == InitTransform /\ [][NextTransform]_vars

---------------------------------------------------------------------------
(* The transform chain on tables around the business rule: names present,
   missing, 'Unknown' and blank; 9, 10 and 11 ratings in total *)

\* row i of a file gets appid i
Numbered(rows) == [i \in 1..Len(rows) |-> [rows[i] EXCEPT !.appid = i]]

RulesNames == {Some(name_Alpha), NA, Some(str_Unknown), Some(name_blank)}
RulesPositive == {9, 10}
RulesNegative == {0, 1}

RulesRows ==
    {[AlphaRow(1) EXCEPT !.name = n, !.positive_ratings = Some(p),
                         !.negative_ratings = Some(q)] :
        n \in RulesNames, p \in RulesPositive, q \in RulesNegative}

RulesInputs == {Table(RawColumns, Numbered(rows)) : rows \in SeqsUpTo(RulesRows, MaxRows)}

InitRules == InitTransformOn(RulesInputs)

SpecRules == InitRules /\ [][NextTransform]_vars

---------------------------------------------------------------------------
(* The transform chain on tables around the derived metrics: rating counts
   with and without positive ratings, owners texts well-formed and not, prices
   on both sides of every bin edge *)

owners_1_2 == <<"1", "-", "2">>
owners_1000_2001_commas == <<"1", ",", "0", "0", "0", "-", "2", ",", "0", "0", "1">>
owners_5_8_spaced == <<" ", "5", " ", "-", " ", "8">>
owners_7 == <<"7">>
owners_1_2_3 == <<"1", "-", "2", "-", "3">>
owners_minus_5 == <<"-", "5">>
owners_5_minus == <<"5", "-">>
owners_abc == <<"a", "b", "c">>
owners_10_x == <<"1", "0", "-", "x">>

\* owners texts of the form a-b (blanks and thousands separators allowed)
WellFormedOwners ==
    {owners_0_20000, owners_1M_2M, owners_1_2, owners_1000_2001_commas, owners_5_8_spaced}

\* owners texts that are neither an integer nor an a-b range of integers
MalformedOwners == {owners_1_2_3, owners_minus_5, owners_5_minus, owners_abc, owners_10_x}

MetricsOwners ==
    {Some(o) : o \in WellFormedOwners \cup MalformedOwners \cup {owners_7, str_Unknown}}
    \cup {NA}

MetricsRatings == {[positive |-> p, negative |-> q] : p \in {0, 10}, q \in {0, 5}}

MetricsPrices == {NA} \cup {Some(c) : c \in {0, 500, 501, 1500, 1501, 3000, 3001, 6000, 6001}}

MetricsRows ==
    {[AlphaRow(1) EXCEPT !.owners = o] : o \in MetricsOwners}
    \cup {[AlphaRow(1) EXCEPT !.positive_ratings = Some(n.positive),
                              !.negative_ratings = Some(n.negative)] : n \in MetricsRatings}
    \cup {[AlphaRow(1) EXCEPT !.price = c] : c \in MetricsPrices}

MetricsInputs ==
    {Table(RawColumns, Numbered(rows)) : rows \in SeqsUpTo(MetricsRows, MaxRows)}

InitMetrics == InitTransformOn(MetricsInputs)

SpecMetrics == InitMetrics /\ [][NextTransform]_vars

---------------------------------------------------------------------------
(* The dashboard (src/dashboard.py): main loads the games table, builds the
   sidebar's filters and applies them; Streamlit runs main again on every
   change of a widget, load_data being cached *)

\* run_transform's five passes in one
transform_chain(df, min_year, year_now) ==
    apply_business_rules(
        process_categorical_data(
            create_calculated_metrics(
                transform_dates(clean_basic_data(df), min_year), year_now)))

BooleanColumns ==
    {"has_windows", "has_mac", "has_linux", "is_multiplatform", "is_multiplayer",
     "is_singleplayer", "has_achievements", "is_free"}

\* SQLite stores a boolean as the integer 0 or 1, and read_sql_query returns it so
SqlBoolean(b) == IF b THEN 1 ELSE 0

read_sql_query(table) ==
    Table(table.columns,
          [i \in 1..Len(table.rows) |->
              [c \in DOMAIN table.rows[i] |->
                  IF c \in BooleanColumns THEN SqlBoolean(table.rows[i][c])
                  ELSE table.rows[i][c]]])

\* load_data stops the script on an exception (no games table) and on an empty table
load_data_stops(db) == "games" \notin DOMAIN db \/ Length(db["games"]) = 0
load_data(db) == read_sql_query(db["games"])

str_Todos == <<"T", "o", "d", "o", "s">>
Platforms == {"Windows", "Mac", "Linux"}

\* the column the platform filter reads for a selected platform
PlatformColumn(platform) ==
    CASE platform = "Windows" -> "has_windows"
      [] platform = "Mac" -> "has_mac"
      [] platform = "Linux" -> "has_linux"

\* a fault: the masks of the selected platforms combined with & instead of |
PlatformMask_all(r, platforms) == \A q \in platforms : r[PlatformColumn(q)] = 1

\* platform_filters[0] | platform_filters[1] | ..; a mask is column == True,
\* which the integer 1 satisfies
PlatformMask(r, platforms) == \E q \in platforms : r[PlatformColumn(q)] = 1

\* q >= n for a fraction q and an integer n
RatioAtLeast(q, n) == q.num >= n * q.den

\* a fault: the platform mask is applied also when no platform is selected
apply_filters_emptySelectsNone(df, f) ==
    LET InYears(r) == /\ ~IsNA(r.release_year)
                      /\ Val(r.release_year) >= f.year_range[1]
                      /\ Val(r.release_year) <= f.year_range[2]
        OfGenre(r) == r.primary_genre = f.genre
        OfCategory(r) == r.price_category = Some(f.price_category)
        OnPlatform(r) == PlatformMask(r, f.platforms \cap Platforms)
        Rated(r) == RatioAtLeast(r.positive_percentage, f.min_rating)
        by_year == SelectSeq(df.rows, InYears)
        by_genre == IF f.genre # str_Todos THEN SelectSeq(by_year, OfGenre) ELSE by_year
        by_category == IF f.price_category # "Todas"
                       THEN SelectSeq(by_genre, OfCategory) ELSE by_genre
        by_platform == SelectSeq(by_category, OnPlatform)
    IN  Table(df.columns, SelectSeq(by_platform, Rated))

apply_filters(df, f) ==
    LET InYears(r) == /\ ~IsNA(r.release_year)
                      /\ Val(r.release_year) >= f.year_range[1]
                      /\ Val(r.release_year) <= f.year_range[2]
        OfGenre(r) == r.primary_genre = f.genre
        OfCategory(r) == r.price_category = Some(f.price_category)
        OnPlatform(r) == PlatformMask(r, f.platforms \cap Platforms)
        Rated(r) == RatioAtLeast(r.positive_percentage, f.min_rating)
        by_year == SelectSeq(df.rows, InYears)
        by_genre == IF f.genre # str_Todos THEN SelectSeq(by_year, OfGenre) ELSE by_year
        by_category == IF f.price_category # "Todas"
                       THEN SelectSeq(by_genre, OfCategory) ELSE by_genre
        by_platform == IF f.platforms \cap Platforms # {}
                       THEN SelectSeq(by_category, OnPlatform) ELSE by_category
    IN  Table(df.columns, SelectSeq(by_platform, Rated))

\* the choices the sidebar offers for the table df
FilterChoices(df) ==
    LET years == {Val(df.rows[i].release_year) :
                     i \in {j \in 1..Len(df.rows) : ~IsNA(df.rows[j].release_year)}}
        genres == {df.rows[i].primary_genre : i \in 1..Len(df.rows)}
        categories == {Val(df.rows[i].price_category) :
                          i \in {j \in 1..Len(df.rows) : ~IsNA(df.rows[j].price_category)}}
    IN  [year_range : {<<Min(years), Max(years)>>, <<Min(years), Min(years)>>,
                       <<Max(years), Max(years)>>},
         genre : {str_Todos} \cup genres,
         price_category : {"Todas"} \cup categories,
         platforms : SUBSET Platforms,
         min_rating : {0, 80}]

DashboardFrame == UNCHANGED <<pipeline, previous, api>>

\* main: df = load_data(), a function under @st.cache_data without arguments:
\* the server keeps one entry for it and answers every later call, of any
\* session, from that entry. st.stop() leaves no entry.
\* dash_pc is "load_data" in the first script run of a session, "rerun" in a
\* later one.
LoadData ==
    /\ dash_pc \in {"load_data", "rerun"}
    /\ IF load_data_cache # None
       THEN /\ dash_df' = load_data_cache
            /\ dash_pc' = "create_sidebar_filters"
            /\ UNCHANGED load_data_cache
       ELSE IF load_data_stops(database)
       THEN dash_pc' = "stopped" /\ UNCHANGED <<dash_df, load_data_cache>>
       ELSE /\ dash_df' = Some(load_data(database))
            /\ load_data_cache' = Some(load_data(database))
            /\ dash_pc' = "create_sidebar_filters"
    /\ UNCHANGED <<filters, filtered_df>>
    /\ DashboardFrame

\* main: filters = create_sidebar_filters(df)
CreateSidebarFilters ==
    /\ dash_pc = "create_sidebar_filters"
    /\ \E f \in FilterChoices(Val(dash_df)) : filters' = Some(f)
    /\ dash_pc' = "apply_filters"
    /\ UNCHANGED <<dash_df, filtered_df, load_data_cache>>
    /\ DashboardFrame

\* main: filtered_df = apply_filters(df, filters)
ApplyFilters ==
    /\ dash_pc = "apply_filters"
    /\ filtered_df' = Some(apply_filters(Val(dash_df), Val(filters)))
    /\ dash_pc' = "shown"
    /\ UNCHANGED <<dash_df, filters, load_data_cache>>
    /\ DashboardFrame

\* a widget was changed: main runs again with fresh locals
Rerun ==
    /\ dash_pc = "shown"
    /\ dash_pc' = "rerun"
    /\ dash_df' = None /\ filters' = None /\ filtered_df' = None
    /\ UNCHANGED load_data_cache
    /\ DashboardFrame

\* the page is opened anew (another browser session on the same server)
NewSession ==
    /\ dash_pc \in {"shown", "stopped"}
    /\ dash_pc' = "load_data"
    /\ dash_df' = None /\ filters' = None /\ filtered_df' = None
    /\ UNCHANGED load_data_cache
    /\ DashboardFrame

platforms_windows_linux == <<"w", "i", "n", "d", "o", "w", "s", ";", "l", "i", "n", "u", "x">>

\* games that pass the transform chain and differ in year, genre, price
\* category, platforms and rating
DashboardRows ==
    {AlphaRow(1), BetaRow(1),
     [AlphaRow(1) EXCEPT !.platforms = Some(str_windows), !.genres = Some(genres_RPG),
                         !.release_date = Some(date_2010_01_01)],
     [BetaRow(1) EXCEPT !.platforms = Some(platforms_windows_linux),
                        !.positive_ratings = Some(20), !.negative_ratings = Some(20),
                        !.release_date = Some(date_2015_07_04)]}

\* the databases the dashboard is started on: none, and those a successful
\* save_to_database leaves
DashboardDatabases ==
    {<<>>}
    \cup {ReplaceTables(<<>>, transform_chain(Table(RawColumns, Numbered(rows)),
                                              MIN_YEAR, y), Len(DatabaseTables)) :
             rows \in SeqsUpTo(DashboardRows, MaxRows), y \in ClockYears}

InitDashboard ==
    /\ pc = "idle"
    /\ args = [skip_extract |-> FALSE, skip_transform |-> FALSE, skip_load |-> FALSE]
    /\ raw_file = [kind |-> "absent"]
    /\ df_current = None
    /\ df_raw = None /\ df_clean = None /\ df_dates = None
    /\ df_metrics = None /\ df_categorical = None /\ df_final = None
    /\ success_count = 0
    /\ load_success = None
    /\ raised = "none"
    /\ exception = "none"
    /\ events = <<>>
    /\ warnings = {}
    /\ result = None
    /\ exit_code = None
    /\ csv_file = None
    /\ excel_file = None
    /\ database \in DashboardDatabases
    /\ db_saves = <<>>
    /\ db_indexes = {} /\ index_faults = {}
    /\ saved = <<>>
    /\ current_year \in ClockYears
    /\ runs = 0
    /\ previous = None
    /\ dash_pc = "load_data" /\ dash_df = None /\ filters = None /\ filtered_df = None
    /\ load_data_cache = None
    /\ steam_api_key = FALSE
    /\ app_ids = <<>> /\ api_index = 0 /\ api_data = <<>>
    /\ api_requests = 0 /\ api_warnings = {}
    /\ api_queried = <<>> /\ api_status = NA
    /\ api_pc = "idle"

NextDashboard ==
    \/ LoadData
    \/ CreateSidebarFilters
    \/ ApplyFilters
    \/ Rerun

SpecDashboard == InitDashboard /\ [][NextDashboard]_vars

---------------------------------------------------------------------------
(* run_transform called a second time on the same raw table, by a transformer
   with the same min_year; the calendar year may have changed in between *)

RepeatRows == {AlphaRow(1), BetaRow(1), BetaRow(2), OldRow(2)}

RepeatInputs == {Table(RawColumns, rows) : rows \in SeqsUpTo(RepeatRows, MaxRows)}

InitRepeat == InitTransformOn(RepeatInputs)

TransformAgain ==
    /\ pc = "load"
    /\ previous = None
    /\ previous' = Some([df |-> Val(df_final), current_year |-> current_year])
    /\ \E y \in {current_year, current_year + 1} : current_year' = y
    /\ df_current' = df_raw
    /\ df_clean' = None /\ df_dates' = None
    /\ df_metrics' = None /\ df_categorical' = None /\ df_final' = None
    /\ events' = <<"extract", "extract_done", "transform">>
    /\ pc' = "clean_basic_data"
    /\ UNCHANGED <<args, raw_file, df_raw, success_count, saved, load_success, raised,
                   exception, warnings, result, exit_code, artifacts, runs, dashboard, api,
                   index_faults>>

NextRepeat ==
    \/ CleanBasicData
    \/ TransformDates
    \/ CreateCalculatedMetrics
    \/ ProcessCategoricalData
    \/ ApplyBusinessRules
    \/ TransformSummary
    \/ TransformAgain

SpecRepeat == InitRepeat /\ [][NextRepeat]_vars

---------------------------------------------------------------------------
(* run_transform on tables whose rows differ in playtime and in the stage
   that drops them *)

\* a long-played game that passes every stage
HitRow(a) == BetaRow(a)
\* the same game released before MIN_YEAR: dropped by transform_dates
OldHitRow(a) == [BetaRow(a) EXCEPT !.release_date = Some(date_2009_12_31)]
\* the same game with nine ratings: dropped by apply_business_rules
UnratedHitRow(a) == [BetaRow(a) EXCEPT !.positive_ratings = Some(5),
                                       !.negative_ratings = Some(4)]
\* a briefly played game, and one without a playtime
ShortRow(a) == [AlphaRow(a) EXCEPT !.average_playtime = Some(7)]
IdleRow(a) == [AlphaRow(a) EXCEPT !.average_playtime = NA]
\* another record of the first game, at another price
FreeAlphaRow(a) == [AlphaRow(a) EXCEPT !.price = Some(0)]

PlaytimeRows ==
    {AlphaRow(1), FreeAlphaRow(1), HitRow(2), OldHitRow(2), UnratedHitRow(2),
     ShortRow(2), IdleRow(2)}

PlaytimeInputs == {Table(RawColumns, rows) : rows \in SeqsUpTo(PlaytimeRows, MaxRows)}

InitPlaytime == InitTransformOn(PlaytimeInputs)

SpecPlaytime == InitPlaytime /\ [][NextTransform]_vars

---------------------------------------------------------------------------
(* Dashboard sessions on a server that stays up while the pipeline loads anew *)

\* the raw files whose games reach the store
SessionTables ==
    {Table(RawColumns, <<AlphaRow(1), BetaRow(1)>>),
     Table(RawColumns, <<BetaRow(1), AlphaRow(2)>>)}

\* The second pipeline process has written its CSV file and its spreadsheet and
\* is about to call save_to_database; the store holds what the first process
\* loaded from `first`.
SecondLoadUnderWay(first, second, year) ==
    LET loaded == transform_chain(first, MIN_YEAR, year)
        clean == clean_basic_data(second)
        dates == transform_dates(clean, MIN_YEAR)
        metrics == create_calculated_metrics(dates, year)
        categorical == process_categorical_data(metrics)
        final == apply_business_rules(categorical)
    IN  /\ pc = "save_to_database"
        /\ args = [skip_extract |-> FALSE, skip_transform |-> FALSE, skip_load |-> FALSE]
        /\ raw_file = [kind |-> "table", df |-> second]
        /\ df_current = Some(final)
        /\ df_raw = Some(second) /\ df_clean = Some(clean) /\ df_dates = Some(dates)
        /\ df_metrics = Some(metrics) /\ df_categorical = Some(categorical)
        /\ df_final = Some(final)
        /\ success_count = 2
        /\ load_success = None
        /\ raised = "none"
        /\ exception = "none"
        /\ events = <<"extract", "extract_done", "transform">> \o PassEvents
                       \o <<"transform_done", "load", "save_to_csv", "save_to_excel">>
        /\ warnings = {}
        /\ result = None
        /\ exit_code = None
        /\ csv_file = Some(final)
        /\ excel_file = Some(Workbook(final, Len(ExcelSheets)))
        /\ database = ReplaceTables(<<>>, loaded, Len(DatabaseTables))
        /\ db_saves = <<[df |-> loaded, tables |-> Len(DatabaseTables), returned |-> TRUE]>>
        /\ db_indexes = create_indexes(loaded, index_faults)
        /\ saved = <<TRUE, TRUE>>
        /\ current_year = year
        /\ runs = 2

InitSessions ==
    /\ index_faults = {}
    /\ \E first \in SessionTables, second \in SessionTables, year \in ClockYears :
          SecondLoadUnderWay(first, second, year)
    /\ previous = None
    /\ dash_pc = "load_data" /\ dash_df = None /\ filters = None /\ filtered_df = None
    /\ load_data_cache = None
    /\ steam_api_key = FALSE
    /\ app_ids = <<>> /\ api_index = 0 /\ api_data = <<>>
    /\ api_requests = 0 /\ api_warnings = {}
    /\ api_queried = <<>> /\ api_status = NA
    /\ api_pc = "idle"

NextSessions ==
    \/ LoadData
    \/ CreateSidebarFilters
    \/ ApplyFilters
    \/ Rerun
    \/ NewSession
    \/ SaveToDatabase

SpecSessions == InitSessions /\ [][NextSessions]_vars

---------------------------------------------------------------------------
(* save_to_database on a database that refuses some of the indexes *)

InitIndexes ==
    /\ index_faults \in SUBSET {Indexes[k] : k \in 1..Len(Indexes)}
    /\ \E first \in SessionTables, second \in SessionTables, year \in ClockYears :
          SecondLoadUnderWay(first, second, year)
    /\ previous = None
    /\ dash_pc = "idle" /\ dash_df = None /\ filters = None /\ filtered_df = None
    /\ load_data_cache = None
    /\ steam_api_key = FALSE
    /\ app_ids = <<>> /\ api_index = 0 /\ api_data = <<>>
    /\ api_requests = 0 /\ api_warnings = {}
    /\ api_queried = <<>> /\ api_status = NA
    /\ api_pc = "idle"

NextIndexes ==
    \/ SaveToDatabase
    \/ LoadEnd
    \/ ReturnTrue
    \/ Exit

SpecIndexes == InitIndexes /\ [][NextIndexes]_vars

---------------------------------------------------------------------------
(* DataExtractor.extract_steam_api_data: one lookup per app id *)

API_LIMIT == 10     \* app_ids[:10]

\* a fault: the whole list is looked up
Batch_whole(ids) == ids

\* app_ids[:API_LIMIT]
Batch(ids) == SubSeq(ids, 1, IF Len(ids) < API_LIMIT THEN Len(ids) ELSE API_LIMIT)

\* What one lookup can meet: a 200 answer with a JSON body, an answer with
\* another status, requests.get raising (no connection, or no answer within
\* self.timeout), and a 200 answer whose body response.json() cannot decode.
ApiOutcomes == {"ok", "status", "ConnectionError", "Timeout", "JSONDecodeError"}

\* The exception the body of the inner try raises on an outcome.
lookup_error(outcome) ==
    IF outcome \in {"ok", "status"} THEN "none" ELSE outcome

\* response.status_code; requests.get raising leaves no response
response_status(outcome) ==
    CASE outcome \in {"ok", "JSONDecodeError"} -> Some(200)
      [] outcome = "status" -> Some(404)
      [] outcome \in {"ConnectionError", "Timeout"} -> NA

\* response.json() of a 200 answer for app_id
response_json(app_id) == [steam_appid |-> app_id]

\* api_data[app_id] = data
store(data, app_id, value) == (app_id :> value) @@ data

\* A fault: the failed lookup ends the loop.
after_failure_abortsBatch(i, n) == n

\* except Exception: logger.warning(...); continue
after_failure(i, n) == i + 1

\* Entry: without a key the function returns {} before any request.
ExtractSteamApiData ==
    /\ api_pc = "called"
    /\ IF ~steam_api_key
          THEN /\ api_pc' = "returned"
               /\ api_data' = <<>>
               /\ UNCHANGED api_index
          ELSE /\ api_pc' = "lookup"
               /\ api_data' = <<>>
               /\ api_index' = 0
    /\ UNCHANGED <<steam_api_key, app_ids, api_requests, api_warnings, api_queried,
                   api_status>>
    /\ UNCHANGED <<pipeline, previous, dashboard>>

\* One turn of the for loop.
Lookup ==
    /\ api_pc = "lookup"
    /\ api_index < Len(Batch(app_ids))
    /\ \E outcome \in ApiOutcomes :
          LET app_id == Batch(app_ids)[api_index + 1]
              error == lookup_error(outcome)
          IN  /\ api_requests' = api_requests + 1
              /\ api_queried' = Append(api_queried, app_id)
              /\ api_status' = response_status(outcome)
              /\ api_data' = IF outcome = "ok"
                                THEN store(api_data, app_id, response_json(app_id))
                                ELSE api_data
              /\ api_warnings' = IF error = "none" THEN api_warnings
                                                   ELSE api_warnings \cup {app_id}
              /\ api_index' = IF error = "none"
                                 THEN api_index + 1
                                 ELSE after_failure(api_index, Len(Batch(app_ids)))
    /\ UNCHANGED <<steam_api_key, app_ids, api_pc>>
    /\ UNCHANGED <<pipeline, previous, dashboard>>

\* return api_data
ApiReturn ==
    /\ api_pc = "lookup"
    /\ api_index >= Len(Batch(app_ids))
    /\ api_pc' = "returned"
    /\ UNCHANGED <<steam_api_key, app_ids, api_index, api_data, api_requests, api_warnings,
                   api_queried, api_status>>
    /\ UNCHANGED <<pipeline, previous, dashboard>>

\* the arguments: short lists, one with an id twice, and a list of twelve ids
\* whose last id is also its first
ApiAppIdLists ==
    {<<>>, <<1>>, <<1, 2>>, <<2, 1>>, <<1, 1>>, <<3, 1, 2>>,
     [i \in 1..(API_LIMIT + 2) |-> IF i = API_LIMIT + 2 THEN 1 ELSE i]}

InitApi ==
    /\ pc = "idle"
    /\ args = [skip_extract |-> FALSE, skip_transform |-> FALSE, skip_load |-> FALSE]
    /\ raw_file = [kind |-> "absent"]
    /\ df_current = None
    /\ df_raw = None /\ df_clean = None /\ df_dates = None
    /\ df_metrics = None /\ df_categorical = None /\ df_final = None
    /\ success_count = 0
    /\ load_success = None
    /\ raised = "none"
    /\ exception = "none"
    /\ events = <<>>
    /\ warnings = {}
    /\ result = None
    /\ exit_code = None
    /\ csv_file = None
    /\ excel_file = None
    /\ database = <<>>
    /\ db_saves = <<>>
    /\ db_indexes = {} /\ index_faults = {}
    /\ saved = <<>>
    /\ current_year = Min(ClockYears)
    /\ runs = 0
    /\ previous = None
    /\ dash_pc = "idle" /\ dash_df = None /\ filters = None /\ filtered_df = None
    /\ load_data_cache = None
    /\ steam_api_key \in BOOLEAN
    /\ app_ids \in ApiAppIdLists
    /\ api_index = 0 /\ api_data = <<>>
    /\ api_requests = 0 /\ api_warnings = {}
    /\ api_queried = <<>> /\ api_status = NA
    /\ api_pc = "called"

NextApi ==
    \/ ExtractSteamApiData
    \/ Lookup
    \/ ApiReturn

SpecApi == InitApi /\ [][NextApi]_vars

---------------------------------------------------------------------------
(* Properties *)

Executed(e) == \E i \in 1..Len(events) : events[i] = e
Last(seq) == seq[Len(seq)]
RowsOf(cell) == Val(cell).rows
AppIdsOf(rows) == {rows[i].appid : i \in 1..Len(rows)}
LoadFinished == Executed("load_done")

SaveEvents == <<"save_to_csv", "save_to_excel", "save_to_database">>
ExtractEvents == {"extract", "extract_done"}
TransformEvents == {"transform", "transform_done"} \cup {PassEvents[i] : i \in 1..Len(PassEvents)}
LoadEvents == {"load", "load_done"} \cup {SaveEvents[i] : i \in 1..Len(SaveEvents)}

\* C1 as stated: a load that finished with fewer than three writes succeeded
\* makes the process exit with a non-zero code.
C1_PartialLoadExitsNonZero ==
    (pc = "exited" /\ LoadFinished /\ success_count < TOTAL_FORMATS)
        => exit_code # Some(0)

\* C1 amended: a load that finished with fewer than three writes succeeded is
\* reported as failed by run_load and logged as a warning by run_pipeline, which
\* still returns True; the process exits with code 0.
C1_PartialLoadWarnsAndExitsZero ==
    (LoadFinished /\ success_count < TOTAL_FORMATS)
        => /\ load_success = Some(FALSE)
           /\ "not_all_formats_saved" \in warnings
           /\ raised = "none"
           /\ pc \in {"main", "exited"} => result = Some(TRUE)
           /\ pc = "exited" => exit_code = Some(0)

C1_Witness ==
    /\ pc = "exited"
    /\ LoadFinished
    /\ success_count = 2
    /\ exit_code = Some(0)

\* C2: when a stage raises, nothing of a later stage is executed in that run (the
\* failed step is the last one), run_pipeline returns False and the process
\* exits with code 1.
C2_RaiseAbortsRun ==
    (raised # "none")
        => /\ pc \in {"except", "main", "exited"}
           /\ pc \in {"main", "exited"} => result = Some(FALSE)
           /\ pc = "except" => result = None
           /\ pc = "exited" => exit_code = Some(1)
           /\ raised = "extract" =>
                /\ Last(events) = "extract"
                /\ \A i \in 1..Len(events) : events[i] \notin TransformEvents \cup LoadEvents
           /\ raised = "transform" =>
                /\ Last(events) \in {PassEvents[i] : i \in 1..Len(PassEvents)}
                /\ ~Executed("transform_done")
                /\ \A i \in 1..Len(events) : events[i] \notin LoadEvents
           /\ raised = "load" =>
                \A i \in 1..Len(events) : events[i] \notin LoadEvents
           /\ saved = <<>>

C2_Witness ==
    /\ raised = "transform"
    /\ Executed("extract_done")
    /\ pc = "exited"
    /\ exit_code = Some(1)

\* C3: every run_load that returns has called save_to_csv, save_to_excel and
\* save_to_database, in this order, whatever each returned; what a save wrote
\* is still there after the later saves; run_load returns True exactly when
\* all three returned True.
C3_AllThreeWritesAttempted ==
    /\ LoadFinished =>
          /\ Len(saved) = 3
          /\ \E i \in 1..Len(events) :
                SubSeq(events, i, i + 4) =
                    <<"load", "save_to_csv", "save_to_excel", "save_to_database", "load_done">>
          /\ load_success = Some(saved[1] /\ saved[2] /\ saved[3])
    /\ (Len(saved) >= 1 /\ saved[1]) => csv_file = df_current
    /\ (Len(saved) >= 2 /\ saved[2]) =>
          excel_file = Some(Workbook(Val(df_current), Len(ExcelSheets)))
    /\ (Len(saved) >= 3 /\ saved[3]) =>
          ("games" \in DOMAIN database /\ database["games"] = Val(df_current))

C3_Witness ==
    /\ LoadFinished
    /\ saved = <<TRUE, FALSE, TRUE>>
    /\ load_success = Some(FALSE)

SixTables ==
    {"games", "genre_statistics", "year_statistics", "top_revenue", "top_quality",
     "top_popular"}

\* C4: once save_to_database has returned True, the database holds the six
\* tables, and games has as many rows as the table that was passed.
C4_SixTablesAfterSuccess ==
    (db_saves # <<>> /\ Last(db_saves).returned)
        => /\ SixTables \subseteq DOMAIN database
           /\ Len(database["games"].rows) = Length(Last(db_saves).df)

C4_Witness ==
    /\ db_saves # <<>>
    /\ Last(db_saves).returned
    /\ Length(Last(db_saves).df) = 2

\* C5: after a save_to_database that returned True, whatever was saved before,
\* the six tables hold exactly what is derived from the table of that call, and
\* games holds no row of an earlier call.
C5_LoadReplacesWholesale ==
    (db_saves # <<>> /\ Last(db_saves).returned)
        => /\ DOMAIN database = SixTables
           /\ \A t \in SixTables :
                 database[t] = DatabaseTableContents(t, Last(db_saves).df)
           /\ database["games"] = Last(db_saves).df
           /\ \A i \in 1..Len(database["games"].rows) :
                 \E j \in 1..Length(Last(db_saves).df) :
                     database["games"].rows[i] = Last(db_saves).df.rows[j]

C5_Witness ==
    /\ Len(db_saves) = 2
    /\ db_saves[1].returned /\ db_saves[2].returned
    /\ \E i \in 1..Length(db_saves[1].df) :
          \A j \in 1..Length(db_saves[2].df) : db_saves[1].df.rows[i] # db_saves[2].df.rows[j]

StageRank(e) ==
    CASE e = "extract" -> 1
      [] e = "extract_done" -> 2
      [] e = "transform" -> 3
      [] e = "clean_basic_data" -> 4
      [] e = "transform_dates" -> 5
      [] e = "create_calculated_metrics" -> 6
      [] e = "process_categorical_data" -> 7
      [] e = "apply_business_rules" -> 8
      [] e = "transform_done" -> 9
      [] e = "load" -> 10
      [] e = "save_to_csv" -> 11
      [] e = "save_to_excel" -> 12
      [] e = "save_to_database" -> 13
      [] e = "load_done" -> 14

\* C6: within a run the stages execute in the order extract, transform, load,
\* each at most once; a stage starts only when the stage executed before it has
\* completed; the five passes run one after the other in their fixed order.
C6_StagesInOrder ==
    /\ \A i, j \in 1..Len(events) : i < j => StageRank(events[i]) < StageRank(events[j])
    /\ \A i \in 1..Len(events) :
          /\ events[i] = "extract" => i = 1
          /\ (events[i] \in {"transform", "load"} /\ i > 1)
                => events[i - 1] \in {"extract_done", "transform_done"}
          /\ events[i] = "clean_basic_data" => (i > 1 /\ events[i - 1] = "transform")
          /\ \A p \in 2..Len(PassEvents) :
                events[i] = PassEvents[p] => (i > 1 /\ events[i - 1] = PassEvents[p - 1])
          /\ events[i] = "transform_done"
                => (i > 1 /\ events[i - 1] = "apply_business_rules")

C6_Witness ==
    /\ pc = "exited"
    /\ events = <<"extract", "extract_done", "transform">> \o PassEvents
                   \o <<"transform_done", "load">> \o SaveEvents \o <<"load_done">>

FirstWithAppid(rows, a) == rows[Min({i \in 1..Len(rows) : rows[i].appid = a})]
UniqueAppIds(rows) == \A i, j \in 1..Len(rows) : rows[i].appid = rows[j].appid => i = j

\* the cells of `first` as clean_basic_data hands them on: a present cell keeps
\* its value (a text its stripped value)
CarriesValuesOf(out, first) ==
    /\ DOMAIN out = DOMAIN first
    /\ out.appid = first.appid
    /\ \A c \in (DOMAIN first) \ {"appid"} :
          IsNA(first[c])
          \/ (IF c \in string_columns
              THEN out[c] = Some(Strip(Val(first[c])))
              ELSE out[c] = first[c])

\* C8: the output of clean_basic_data, and of every later pass, holds at most
\* one row per appid; the row clean_basic_data keeps for an appid carries the
\* values of the first input row with that appid; no derived column exists yet.
C8_FirstOccurrenceWins ==
    /\ df_clean # None =>
          /\ UniqueAppIds(RowsOf(df_clean))
          /\ AppIdsOf(RowsOf(df_clean)) = AppIdsOf(RowsOf(df_raw))
          /\ \A i \in 1..Len(RowsOf(df_clean)) :
                CarriesValuesOf(RowsOf(df_clean)[i],
                                FirstWithAppid(RowsOf(df_raw), RowsOf(df_clean)[i].appid))
          /\ Val(df_clean).columns = Val(df_raw).columns
    /\ df_dates # None => UniqueAppIds(RowsOf(df_dates))
    /\ df_metrics # None => UniqueAppIds(RowsOf(df_metrics))
    /\ df_categorical # None => UniqueAppIds(RowsOf(df_categorical))
    /\ df_final # None => UniqueAppIds(RowsOf(df_final))

C8_Witness ==
    /\ df_final # None
    /\ Len(RowsOf(df_raw)) = 2
    /\ RowsOf(df_raw)[1].appid = RowsOf(df_raw)[2].appid
    /\ RowsOf(df_raw)[1].name # RowsOf(df_raw)[2].name
    /\ Len(RowsOf(df_clean)) = 1
    /\ RowsOf(df_clean)[1].name = Some(Strip(Val(RowsOf(df_raw)[1].name)))

HasYearAtLeast(rows, y) ==
    \A i \in 1..Len(rows) : ~IsNA(rows[i].release_year) /\ Val(rows[i].release_year) >= y

\* C9: every row of transform_dates' output, of the tables the metrics are
\* derived from and of the final table has release_year >= MIN_YEAR; a row of
\* an earlier year is gone before the metrics are derived.
C9_NoRowBelowMinYear ==
    /\ df_dates # None =>
          /\ HasYearAtLeast(RowsOf(df_dates), MIN_YEAR)
          /\ \A i \in 1..Len(RowsOf(df_clean)) :
                LET dt == to_datetime(RowsOf(df_clean)[i].release_date)
                IN  (~IsNA(dt) /\ Val(dt).year < MIN_YEAR)
                        => RowsOf(df_clean)[i].appid \notin AppIdsOf(RowsOf(df_dates))
    /\ df_metrics # None =>
          /\ HasYearAtLeast(RowsOf(df_metrics), MIN_YEAR)
          /\ AppIdsOf(RowsOf(df_metrics)) = AppIdsOf(RowsOf(df_dates))
    /\ df_categorical # None => HasYearAtLeast(RowsOf(df_categorical), MIN_YEAR)
    /\ df_final # None => HasYearAtLeast(RowsOf(df_final), MIN_YEAR)

C9_Witness ==
    /\ df_final # None
    /\ Len(RowsOf(df_clean)) = 2
    /\ \E i \in 1..2 : RowsOf(df_clean)[i].release_date = Some(date_2009_12_31)
    /\ Len(RowsOf(df_dates)) = 1
    /\ RowsOf(df_dates)[1].release_year = Some(MIN_YEAR)

\* C10 as stated: transform_dates keeps a row whose release_date cannot be
\* parsed, with its four date fields missing, and drops only the rows whose
\* parsed year is below MIN_YEAR.
C10_UnparseableDateKept ==
    df_dates # None =>
        \A i \in 1..Len(RowsOf(df_clean)) :
            LET r == RowsOf(df_clean)[i]
                dt == to_datetime(r.release_date)
                kept == {j \in 1..Len(RowsOf(df_dates)) : RowsOf(df_dates)[j].appid = r.appid}
            IN  /\ IsNA(dt) =>
                      \E j \in kept :
                          /\ IsNA(RowsOf(df_dates)[j].release_date)
                          /\ IsNA(RowsOf(df_dates)[j].release_year)
                          /\ IsNA(RowsOf(df_dates)[j].release_month)
                          /\ IsNA(RowsOf(df_dates)[j].release_quarter)
                /\ kept = {} => (~IsNA(dt) /\ Val(dt).year < MIN_YEAR)

\* C11: apply_business_rules returns, in their order, exactly the rows whose
\* name is present, is not 'Unknown', is not the empty text, and whose
\* total_ratings is at least 10: a row with 9 ratings is dropped, a row with 10
\* ratings and such a name is kept.
C11_BusinessRuleFilter ==
    df_final # None =>
        LET given == RowsOf(df_categorical)
            out == RowsOf(df_final)
            Passes(r) == /\ r.name # NA
                         /\ r.name # Some(str_Unknown)
                         /\ r.name # Some(<<>>)
                         /\ r.total_ratings # NA
                         /\ Val(r.total_ratings) >= 10
            passing == {i \in 1..Len(given) : Passes(given[i])}
        IN  /\ Val(df_final).columns = Val(df_categorical).columns
            /\ Len(out) = Cardinality(passing)
            /\ \A i \in 1..Len(given) :
                  (i \in passing) <=> (\E j \in 1..Len(out) : out[j] = given[i])
            /\ \A j, k \in 1..Len(out) : j < k => out[j].appid < out[k].appid
            /\ \A i \in 1..Len(given) :
                  /\ given[i].total_ratings = Some(9) => given[i].appid \notin AppIdsOf(out)
                  /\ (given[i].total_ratings = Some(10) /\ given[i].name = Some(name_Alpha))
                        => given[i].appid \in AppIdsOf(out)

C11_Witness ==
    /\ df_final # None
    /\ Len(RowsOf(df_categorical)) = 2
    /\ RowsOf(df_categorical)[1].name = Some(name_Alpha)
    /\ RowsOf(df_categorical)[2].name = Some(name_Alpha)
    /\ RowsOf(df_categorical)[1].total_ratings = Some(9)
    /\ RowsOf(df_categorical)[2].total_ratings = Some(10)
    /\ Len(RowsOf(df_final)) = 1
    /\ RowsOf(df_final)[1].total_ratings = Some(10)

\* a fraction with a positive denominator lies in [0, 100]
IsPercentage(q) == q.den > 0 /\ q.num >= 0 /\ q.num <= 100 * q.den

\* C12 as stated: positive_percentage lies in [0, 100] and is 0 exactly when
\* total_ratings is 0.
C12_ZeroExactlyWithoutRatings ==
    df_metrics # None =>
        \A i \in 1..Len(RowsOf(df_metrics)) :
            LET r == RowsOf(df_metrics)[i]
            IN  /\ IsPercentage(r.positive_percentage)
                /\ (r.positive_percentage.num = 0) <=> (r.total_ratings = Some(0))

\* C12 amended: positive_percentage lies in [0, 100]; it is 0 exactly when
\* positive_ratings is 0, which is the case when total_ratings is 0 and also
\* when every rating is negative; with ratings it is positive_ratings * 100 /
\* total_ratings.
C12_ZeroExactlyWithoutPositive ==
    df_metrics # None =>
        \A i \in 1..Len(RowsOf(df_metrics)) :
            LET r == RowsOf(df_metrics)[i]
                pp == r.positive_percentage
            IN  /\ IsPercentage(pp)
                /\ (pp.num = 0) <=> (r.positive_ratings = Some(0))
                /\ r.total_ratings = Some(0) => pp.num = 0
                /\ (r.total_ratings # NA /\ Val(r.total_ratings) > 0)
                      => pp.num * Val(r.total_ratings) = 100 * Val(r.positive_ratings) * pp.den

C12_Witness ==
    /\ df_metrics # None
    /\ \E i \in 1..Len(RowsOf(df_metrics)) :
          /\ RowsOf(df_metrics)[i].positive_ratings = Some(0)
          /\ RowsOf(df_metrics)[i].total_ratings = Some(5)
          /\ RowsOf(df_metrics)[i].positive_percentage.num = 0

\* the midpoint (a + b) // 2 of each well-formed owners text of the inputs
ExpectedMidpoint(o) ==
    CASE o = owners_0_20000 -> 10000
      [] o = owners_1M_2M -> 1500000
      [] o = owners_1_2 -> 1
      [] o = owners_1000_2001_commas -> 1500
      [] o = owners_5_8_spaced -> 6

\* C13: estimated_owners is >= 0 in every row, and for a well-formed owners
\* text "a-b" it is (a + b) // 2: "1000000-2000000" gives 1500000.
C13_OwnersMidpoint ==
    df_metrics # None =>
        \A i \in 1..Len(RowsOf(df_metrics)) :
            LET r == RowsOf(df_metrics)[i]
            IN  /\ r.estimated_owners >= 0
                /\ \A o \in WellFormedOwners :
                      r.owners = Some(o) => r.estimated_owners = ExpectedMidpoint(o)

C13_Witness ==
    /\ df_metrics # None
    /\ \E i, j \in 1..Len(RowsOf(df_metrics)) :
          /\ RowsOf(df_metrics)[i].owners = Some(owners_1M_2M)
          /\ RowsOf(df_metrics)[i].estimated_owners = 1500000
          /\ RowsOf(df_metrics)[j].owners = Some(owners_1_2)
          /\ RowsOf(df_metrics)[j].estimated_owners = 1

\* C14: create_calculated_metrics never ends with an exception of the owners
\* parser: a row whose owners is missing, 'Unknown' or malformed gets
\* estimated_owners = 0, stays in the table, and the chain goes on.
C14_OwnersParserNeverRaises ==
    /\ (Executed("create_calculated_metrics") /\ HasCol(Val(df_dates), "owners"))
          => /\ df_metrics # None
             /\ ~(raised = "transform" /\ Last(events) = "create_calculated_metrics")
             /\ AppIdsOf(RowsOf(df_metrics)) = AppIdsOf(RowsOf(df_dates))
    /\ df_metrics # None =>
          \A i \in 1..Len(RowsOf(df_metrics)) :
              LET r == RowsOf(df_metrics)[i]
              IN  (\/ r.owners = NA
                   \/ r.owners = Some(str_Unknown)
                   \/ \E o \in MalformedOwners : r.owners = Some(o))
                      => (r.estimated_owners = 0 /\ r.estimated_revenue = Some(0))

C14_Witness ==
    /\ df_final # None
    /\ Len(RowsOf(df_metrics)) = 2
    /\ RowsOf(df_metrics)[1].owners = Some(owners_1_2_3)
    /\ RowsOf(df_metrics)[1].estimated_owners = 0
    /\ RowsOf(df_metrics)[2].owners = Some(owners_abc)
    /\ RowsOf(df_metrics)[2].estimated_owners = 0

\* the category of a price in cents, by the inclusive upper bounds
ExpectedPriceCategory(cents) ==
    IF cents <= 500 THEN "Free/Cheap"
    ELSE IF cents <= 1500 THEN "Budget"
    ELSE IF cents <= 3000 THEN "Standard"
    ELSE IF cents <= 6000 THEN "Premium"
    ELSE "AAA"

\* C15: every non-negative price has exactly one price_category, the bins
\* being closed above: up to 5 Free/Cheap (0 included), up to 15 Budget, up to
\* 30 Standard, up to 60 Premium, above 60 AAA; 5.00 is Free/Cheap, 5.01 Budget.
C15_PriceCategoryBins ==
    df_metrics # None =>
        \A i \in 1..Len(RowsOf(df_metrics)) :
            LET r == RowsOf(df_metrics)[i]
            IN  /\ r.price # NA
                /\ r.price_category = Some(ExpectedPriceCategory(Val(r.price)))
                /\ r.price = Some(0) => r.price_category = Some("Free/Cheap")
                /\ r.price = Some(500) => r.price_category = Some("Free/Cheap")
                /\ r.price = Some(501) => r.price_category = Some("Budget")
                /\ r.price = Some(6001) => r.price_category = Some("AAA")

C15_Witness ==
    /\ df_metrics # None
    /\ Len(RowsOf(df_metrics)) = 2
    /\ RowsOf(df_metrics)[1].price = Some(500)
    /\ RowsOf(df_metrics)[1].price_category = Some("Free/Cheap")
    /\ RowsOf(df_metrics)[2].price = Some(501)
    /\ RowsOf(df_metrics)[2].price_category = Some("Budget")

\* the rows of df that satisfy every filter of f other than the platform filter
OtherFiltersPass(r, f) ==
    /\ r.release_year # NA
    /\ f.year_range[1] <= Val(r.release_year) /\ Val(r.release_year) <= f.year_range[2]
    /\ (f.genre = str_Todos \/ r.primary_genre = f.genre)
    /\ (f.price_category = "Todas" \/ r.price_category = Some(f.price_category))
    /\ r.positive_percentage.num >= f.min_rating * r.positive_percentage.den

OnSelectedPlatform(r, f) ==
    \/ ("Windows" \in f.platforms /\ r.has_windows = 1)
    \/ ("Mac" \in f.platforms /\ r.has_mac = 1)
    \/ ("Linux" \in f.platforms /\ r.has_linux = 1)

\* C16 as stated: apply_filters returns exactly the rows that are within the
\* year range, of the selected genre (unless 'Todos') and price category (unless
\* 'Todas'), rated at least min_rating, and on at least one selected platform.
C16_ConjunctionOfFilters ==
    filtered_df # None =>
        LET Wanted(r) == OtherFiltersPass(r, Val(filters)) /\ OnSelectedPlatform(r, Val(filters))
        IN  RowsOf(filtered_df) = SelectSeq(RowsOf(dash_df), Wanted)

\* C16 amended: as stated when at least one platform is selected; when no
\* platform is selected the platform filter is not applied, and the rows that
\* satisfy the other filters are returned whatever their platforms.
C16_ConjunctionOfActiveFilters ==
    filtered_df # None =>
        LET Wanted(r) ==
                /\ OtherFiltersPass(r, Val(filters))
                /\ (Val(filters).platforms = {} \/ OnSelectedPlatform(r, Val(filters)))
        IN  /\ RowsOf(filtered_df) = SelectSeq(RowsOf(dash_df), Wanted)
            /\ Val(filtered_df).columns = Val(dash_df).columns

C16_Witness ==
    /\ filtered_df # None
    /\ Val(filters).platforms = {"Mac", "Linux"}
    /\ Val(filters).genre = str_Todos
    /\ Val(filters).min_rating = 0
    /\ Len(RowsOf(dash_df)) = 2
    /\ RowsOf(dash_df)[1].has_windows = 1 /\ RowsOf(dash_df)[1].has_mac = 0
    /\ RowsOf(dash_df)[1].has_linux = 0
    /\ RowsOf(dash_df)[2].has_mac = 0 /\ RowsOf(dash_df)[2].has_linux = 1
    /\ Len(RowsOf(filtered_df)) = 1
    /\ RowsOf(filtered_df)[1] = RowsOf(dash_df)[2]

\* C17 as stated: the second run of the transform chain on the same table, with
\* the same minimum year, returns the table the first run returned.
C17_SecondRunIdentical ==
    (previous # None /\ df_final # None) => Val(df_final) = Val(previous).df

WithoutYearsSinceRelease(r) == [c \in (DOMAIN r) \ {"years_since_release"} |-> r[c]]

\* C17 amended: the second run returns the same rows in the same order with the
\* same value in every column other than years_since_release; years_since_release
\* is larger by the number of years the clock has advanced between the runs, so
\* the two tables are identical when both runs read the same current year.
C17_SecondRunIdenticalButForClock ==
    (previous # None /\ df_final # None) =>
        LET first == Val(previous).df
            second == Val(df_final)
            advanced == current_year - Val(previous).current_year
        IN  /\ second.columns = first.columns
            /\ Len(second.rows) = Len(first.rows)
            /\ \A i \in 1..Len(second.rows) :
                  /\ WithoutYearsSinceRelease(second.rows[i])
                        = WithoutYearsSinceRelease(first.rows[i])
                  /\ Val(second.rows[i].years_since_release)
                        = Val(first.rows[i].years_since_release) + advanced
            /\ advanced = 0 => second = first

C17_Witness ==
    /\ previous # None
    /\ df_final # None
    /\ Len(RowsOf(df_final)) = 2
    /\ current_year = Val(previous).current_year + 1
    /\ RowsOf(df_final)[1].years_since_release
          # Val(previous).df.rows[1].years_since_release

\* C18: extract_csv_data on a path that does not exist ends with a not-found
\* error, on a malformed file with a parse error; the error reaches
\* run_pipeline, no table is returned, no later stage runs and the run fails.
C18_ExtractErrorsPropagate ==
    /\ (Executed("extract") /\ raw_file.kind # "table") =>
          /\ raised = "extract"
          /\ raw_file.kind = "absent" => exception = "FileNotFoundError"
          /\ raw_file.kind = "malformed" => exception = "ParserError"
          /\ df_current = None /\ df_raw = None
          /\ Last(events) = "extract"
          /\ pc \in {"except", "main", "exited"}
          /\ pc \in {"main", "exited"} => result = Some(FALSE)
          /\ pc = "exited" => exit_code = Some(1)
    /\ raised = "extract" => raw_file.kind # "table"
    /\ (Executed("extract_done") /\ skip_transform) =>
          (raw_file.kind = "table" /\ df_current = Some(raw_file.df))

C18_Witness ==
    /\ pc = "exited"
    /\ raw_file.kind = "malformed"
    /\ exception = "ParserError"
    /\ events = <<"extract">>
    /\ exit_code = Some(1)

\* The app ids the lookup loop has gone through.
LookedUp == {Batch(app_ids)[i] : i \in 1..api_index}

\* C19: extract_steam_api_data never raises; without a key it makes no request
\* and returns an empty result; with a key every app id of the batch is looked
\* up once whatever happened to the ids before it, a failed lookup leaves the
\* entries collected so far as they were and only moves on to the next id.
C19_LookupFailureSkipsOneId ==
    /\ [](/\ api_pc \in {"called", "lookup", "returned"}
          /\ ~steam_api_key => (api_requests = 0 /\ api_data = <<>>)
          /\ steam_api_key => api_requests = api_index
          /\ (api_pc = "returned" /\ steam_api_key) => api_index = Len(Batch(app_ids))
          /\ api_warnings \subseteq LookedUp
          /\ DOMAIN api_data \subseteq LookedUp)
    /\ [][api_pc = "lookup" =>
            IF api_index < Len(Batch(app_ids))
               THEN /\ api_pc' = "lookup" /\ api_index' = api_index + 1
                    /\ \A id \in DOMAIN api_data :
                          /\ id \in DOMAIN api_data'
                          /\ id # Batch(app_ids)[api_index + 1]
                                => api_data'[id] = api_data[id]
                    /\ api_warnings' # api_warnings => api_data' = api_data
               ELSE api_pc' = "returned" /\ api_data' = api_data]_vars

C19_Witness ==
    /\ api_pc = "returned" /\ steam_api_key
    /\ app_ids = <<3, 1, 2>>
    /\ api_warnings = {1}
    /\ DOMAIN api_data = {3, 2}
    /\ api_requests = 3

C19_WitnessNoKey ==
    /\ api_pc = "returned" /\ ~steam_api_key /\ Len(app_ids) > 0
    /\ api_requests = 0 /\ api_data = <<>>

\* The sheets of a workbook holding a given table.
SheetsWith(book, data) == {i \in 1..Len(book) : book[i].data = data}

\* C20 as stated: a successful spreadsheet save leaves a workbook of six sheets:
\* the full table, the top 100 rows by estimated revenue, by quality score and
\* by estimated owners, and the aggregates by genre and by year.
C20_ThreeTopSheets ==
    (Executed("save_to_excel") /\ Len(saved) >= 2 /\ saved[2]) =>
        LET book == Val(excel_file)
            df == Val(df_current)
        IN  /\ Len(book) = 6
            /\ SheetsWith(book, df) # {}
            /\ SheetsWith(book, nlargest(TOP_N_EXCEL, df.rows, "estimated_revenue")) # {}
            /\ SheetsWith(book, nlargest(TOP_N_EXCEL, df.rows, "quality_score")) # {}
            /\ SheetsWith(book, nlargest(TOP_N_EXCEL, df.rows, "estimated_owners")) # {}
            /\ SheetsWith(book, create_genre_statistics(df)) # {}
            /\ SheetsWith(book, create_year_statistics(df)) # {}

\* C21: no transform stage changes the table it is given: over the step of
\* clean_basic_data, transform_dates, create_calculated_metrics,
\* process_categorical_data or apply_business_rules, the stage's input table
\* (rows, columns, values, missing values included) stays as it was.
C21_StagesLeaveInputAlone ==
    [][/\ pc = "clean_basic_data" => (df_raw' = df_raw /\ df_current' = df_current)
       /\ pc = "transform_dates" => df_clean' = df_clean
       /\ pc = "create_calculated_metrics" => df_dates' = df_dates
       /\ pc = "process_categorical_data" => df_metrics' = df_metrics
       /\ pc = "apply_business_rules" => df_categorical' = df_categorical]_vars

C21_Witness ==
    /\ pc = "summary"
    /\ Length(Val(df_raw)) = 2 /\ Length(Val(df_clean)) = 2
    /\ Length(Val(df_categorical)) = 2 /\ Length(Val(df_final)) = 1
    /\ IsNA(Val(df_raw).rows[1].price) /\ Val(df_clean).rows[1].price = Some(0)
    /\ "release_year" \notin Val(df_clean).columns
    /\ "release_year" \in Val(df_dates).columns
    /\ "total_ratings" \notin Val(df_dates).columns
    /\ "is_free" \notin Val(df_metrics).columns
    /\ "is_free" \in Val(df_categorical).columns

\* `r` is a row of the raw table `raw` that reaches the output `out`: it is the
\* first row of its appid and the output has a row of that appid.
Survives(r, raw, out) ==
    /\ \E i \in 1..Len(raw.rows) : raw.rows[i] = r
    /\ FirstWithAppid(raw.rows, r.appid) = r
    /\ r.appid \in AppIdsOf(out.rows)

OutputRow(out, a) == FirstWithAppid(out.rows, a)
WithoutQualityScore(r) == [c \in (DOMAIN r) \ {"quality_score"} |-> r[c]]

\* the maximum average_playtime of a raw table
RawMaxPlaytime(raw) == ColumnMax(raw.rows, "average_playtime")
\* the maximum average_playtime of the table create_calculated_metrics is given
StageMaxPlaytime(raw) ==
    ColumnMax(transform_dates(clean_basic_data(raw), MIN_YEAR).rows, "average_playtime")

\* the raw rows that reach both the output of this run and `out`, the output of
\* the run on `other`
SharedSurvivors(other, out) ==
    {r \in PlaytimeRows :
        Survives(r, Val(df_raw), Val(df_final)) /\ Survives(r, other, out)}

\* C22 as stated: a raw row that reaches the output of two tables has the same
\* output fields in both, quality_score aside, and the same quality_score when
\* the two raw tables have the same maximum average_playtime.
C22_SameRowSameFields ==
    pc = "summary" =>
        \A other \in PlaytimeInputs :
            LET out == transform_chain(other, MIN_YEAR, current_year)
            IN  \A r \in SharedSurvivors(other, out) :
                    LET mine == OutputRow(Val(df_final), r.appid)
                        theirs == OutputRow(out, r.appid)
                    IN  /\ WithoutQualityScore(mine) = WithoutQualityScore(theirs)
                        /\ RawMaxPlaytime(Val(df_raw)) = RawMaxPlaytime(other)
                              => mine.quality_score = theirs.quality_score

\* C22 amended: the same, the maximum being the one of the rows that
\* create_calculated_metrics is given, those left by the de-duplication and the
\* minimum-year filter.
C22_SameRowSameFieldsStageMax ==
    pc = "summary" =>
        \A other \in PlaytimeInputs :
            LET out == transform_chain(other, MIN_YEAR, current_year)
            IN  \A r \in SharedSurvivors(other, out) :
                    LET mine == OutputRow(Val(df_final), r.appid)
                        theirs == OutputRow(out, r.appid)
                    IN  /\ WithoutQualityScore(mine) = WithoutQualityScore(theirs)
                        /\ ColumnMax(Val(df_dates).rows, "average_playtime") = StageMaxPlaytime(other)
                              => mine.quality_score = theirs.quality_score

\* the first game next to a long-played one that passes: its quality_score is
\* not the one it has alone, its other fields are
C22_Witness ==
    /\ pc = "summary"
    /\ Val(df_raw).rows = <<AlphaRow(1), HitRow(2)>>
    /\ AlphaRow(1) \in SharedSurvivors(Table(RawColumns, <<AlphaRow(1)>>),
                                        transform_chain(Table(RawColumns, <<AlphaRow(1)>>),
                                                        MIN_YEAR, current_year))
    /\ OutputRow(Val(df_final), 1).quality_score
          # OutputRow(transform_chain(Table(RawColumns, <<AlphaRow(1)>>),
                                      MIN_YEAR, current_year), 1).quality_score

\* C23 as stated: once the five transform stages have completed, whatever the
\* table (one without rows included), run_transform returns the final table and
\* the run goes on to the load stage: the summary decides nothing.
C23_SummaryNeverStopsRun ==
    (Executed("apply_business_rules") /\ df_final # None /\ pc # "summary") =>
        /\ Executed("transform_done")
        /\ raised # "transform"
        /\ df_current = df_final

\* C24 as stated: the first load_data of every dashboard session returns the
\* games table as the store holds it at that moment (so a session started after
\* a pipeline load sees that load), and no dashboard step changes the store.
C24_FreshCopyPerSession ==
    [][/\ (dash_pc = "load_data" /\ dash_pc' = "create_sidebar_filters")
             => dash_df' = Some(load_data(database))
       /\ dash_pc' # dash_pc => database' = database]_vars

\* the number of times e occurs in seq
Occurrences(seq, e) == Cardinality({i \in 1..Len(seq) : seq[i] = e})
Position(seq, e) == Min({i \in 1..Len(seq) : seq[i] = e})

C26_LoadWithoutTableFails ==
    /\ []((skip_extract /\ skip_transform /\ ~skip_load) =>
            /\ events = <<>> /\ saved = <<>>
            /\ df_current = None
            /\ pc \in {"extract", "transform", "load", "except", "main", "exited"}
            /\ pc \in {"except", "main", "exited"}
                  => (raised = "load" /\ exception = "ValueError")
            /\ pc \in {"main", "exited"} => result = Some(FALSE)
            /\ pc = "exited" => (exit_code # None /\ Val(exit_code) # 0))
    /\ [][(skip_extract /\ skip_transform /\ ~skip_load)' => artifacts' = artifacts]_vars

C26_Witness ==
    /\ skip_extract /\ skip_transform /\ ~skip_load
    /\ pc = "exited" /\ exit_code = Some(1) /\ result = Some(FALSE)
    /\ runs = 2 /\ csv_file # None /\ excel_file # None /\ "games" \in DOMAIN database

\* C27: the quality_score of every row of the final table is the one computed
\* with the maximum average_playtime of the rows left by the de-duplication and
\* the minimum-year filter, rows that apply_business_rules drops included, and
\* is the value create_calculated_metrics gave the row: it is not recomputed.
C27_NormalisedBeforeBusinessRules ==
    pc = "summary" =>
        LET max_playtime == ColumnMax(Val(df_dates).rows, "average_playtime")
            final == Val(df_final).rows
        IN  \A i \in 1..Len(final) :
                /\ final[i].quality_score = quality_score(final[i], max_playtime)
                /\ final[i].quality_score
                      = FirstWithAppid(Val(df_metrics).rows, final[i].appid).quality_score

\* the long-played game with nine ratings is dropped by the business rules, and
\* the game that is kept still carries the score normalised by its playtime
C27_Witness ==
    /\ pc = "summary"
    /\ Val(df_raw).rows = <<AlphaRow(1), UnratedHitRow(2)>>
    /\ AppIdsOf(Val(df_final).rows) = {1}
    /\ ColumnMax(Val(df_dates).rows, "average_playtime") = Some(1023)
    /\ ColumnMax(Val(df_final).rows, "average_playtime") = Some(63)
    /\ Val(df_final).rows[1].quality_score
          # quality_score(Val(df_final).rows[1], Some(63))

\* C28: when save_to_database has written its six tables, a CREATE INDEX that
\* fails does not fail the save: every other index is created, the six tables
\* stay as written, and save_to_database returns True.
C28_IndexFailureDoesNotFailSave ==
    (pc = "load_end" /\ Last(db_saves).tables = Len(DatabaseTables)) =>
        /\ Last(db_saves).returned /\ Last(saved)
        /\ success_count = TOTAL_FORMATS
        /\ db_indexes = {Indexes[k] : k \in 1..Len(Indexes)} \ index_faults
        /\ database = ReplaceTables(<<>>, Val(df_current), Len(DatabaseTables))

\* the second index is refused: the first and the last four are there
C28_Witness ==
    /\ pc = "load_end" /\ Last(db_saves).tables = Len(DatabaseTables)
    /\ index_faults = {"release_year"}
    /\ db_indexes = {"appid", "primary_genre", "price_category", "estimated_revenue",
                     "quality_score"}
    /\ Last(saved)

\* C29: with no platform selected apply_filters puts no condition on the
\* platforms: it returns, in order, every row that satisfies the year, genre,
\* price-category and minimum-rating filters, whatever its platform flags.
C29_NoPlatformNoRestriction ==
    (filtered_df # None /\ Val(filters).platforms = {}) =>
        LET Passes(r) == OtherFiltersPass(r, Val(filters))
        IN  RowsOf(filtered_df) = SelectSeq(RowsOf(dash_df), Passes)

C29_Witness ==
    /\ filtered_df # None /\ Val(filters).platforms = {}
    /\ Len(RowsOf(filtered_df)) = 2
    /\ RowsOf(filtered_df)[1].has_windows = 1
    /\ RowsOf(filtered_df)[2].has_windows = 0

\* the ids at the first API_LIMIT positions of the argument
FirstIds == {app_ids[k] : k \in 1..Len(Batch(app_ids))}

\* what C30 says in both readings: the requests go to the first ten positions
\* of the list, in list order, and an entry is stored only for the id just
\* queried and only on a response of status 200
QueriesFirstTenInOrder ==
    /\ Len(api_queried) <= API_LIMIT
    /\ api_requests = Len(api_queried)
    /\ api_queried = SubSeq(app_ids, 1, Len(api_queried))
    /\ DOMAIN api_data \subseteq {api_queried[k] : k \in 1..Len(api_queried)}

StoresOnlyOn200 ==
    \A id \in DOMAIN api_data' :
        (id \notin DOMAIN api_data \/ api_data'[id] # api_data[id])
            => (api_status' = Some(200) /\ id = Last(api_queried'))

====
